---- MODULE Spec2Model ----
(***************************************************************************)
(* Model of the summation (period aggregation) service of the NestJS       *)
(* financial-advisor application and of the in-memory transaction store it *)
(* reads from.                                                             *)
(*                                                                         *)
(* An instant (a JavaScript Date) is the record [day, ms]: the number of    *)
(* whole days since the epoch and the milliseconds within that day, that   *)
(* is the time value day * MsPerDay + ms.  Local calendar time is a zone   *)
(* with a fixed zero offset and no daylight-saving transitions.  Amounts   *)
(* are integers.                                                           *)
(***************************************************************************)
EXTENDS Integers, Sequences, FiniteSets, TLC

VARIABLES transactions, pc, query, now, dateRange, calls, fetch, records,
          result

vars ==
    <<transactions, pc, query, now, dateRange, calls, fetch, records, result>>

(***************************************************************************)
(* Bounds of the model.                                                    *)
(***************************************************************************)
MaxTx == 2

MaxLen == 3

NumRequests == 2

(***************************************************************************)
(* JavaScript Date arithmetic.                                             *)
(***************************************************************************)
MsPerDay == 86400000

\* setHours(23, 59, 59, 999): the last millisecond of a day.
EndOfDayMs == 23 * 3600000 + 59 * 60000 + 59 * 1000 + 999

\* The instant of millisecond ms (0 .. MsPerDay - 1) of day number day.
At(day, ms) == [day |-> day, ms |-> ms]

\* new Date(0).
Epoch == At(0, 0)

\* Order of instants, as the comparison of their time values.
Leq(a, b) == a.day < b.day \/ (a.day = b.day /\ a.ms <= b.ms)

\* (a.getTime() - b.getTime()) / MsPerDay, for instants at the same time of
\* day.
DaysBetween(a, b) == (a.day - b.day) + ((a.ms - b.ms) \div MsPerDay)

\* Day number (days since 1970-01-01) of the civil date y-m-d, m in 1..12.
\* The year is counted from March, in eras of 400 years (146097 days).
DaysFromCivil(y, m, d) ==
    LET FromYoe(era, yoe, doy) ==
            era * 146097 + (yoe * 365 + yoe \div 4 - yoe \div 100 + doy) - 719468
        FromMarchYear(yy, doy) == FromYoe(yy \div 400, yy % 400, doy)
    IN  FromMarchYear(IF m <= 2 THEN y - 1 ELSE y,
                      (153 * (IF m > 2 THEN m - 3 ELSE m + 9) + 2) \div 5 + d - 1)

\* The civil date of a day number, as <<year, month (1..12), day of month>>.
CivilFromDays(z) ==
    LET Civil(y, m, d) == <<IF m <= 2 THEN y + 1 ELSE y, m, d>>
        FromMp(y, doy, mp) ==
            Civil(y, IF mp < 10 THEN mp + 3 ELSE mp - 9,
                  doy - (153 * mp + 2) \div 5 + 1)
        FromDoy(y, doy) == FromMp(y, doy, (5 * doy + 2) \div 153)
        FromYoe(era, doe, yoe) ==
            FromDoy(yoe + era * 400,
                    doe - (365 * yoe + yoe \div 4 - yoe \div 100))
        FromDoe(era, doe) ==
            FromYoe(era, doe,
                    (doe - doe \div 1460 + doe \div 36524 - doe \div 146096)
                        \div 365)
        FromEra(zz, era) == FromDoe(era, zz - era * 146097)
        FromShifted(zz) == FromEra(zz, zz \div 146097)
    IN  FromShifted(z + 719468)

\* new Date(year, monthIndex, day[, h, m, s, ms]) with monthIndex counted
\* from 0; a month index or a day outside its range carries over.
MakeDate(year, monthIndex, day, msOfDay) ==
    At(DaysFromCivil(year + (monthIndex \div 12), (monthIndex % 12) + 1, 1)
           + day - 1,
       msOfDay)

getFullYear(date) == CivilFromDays(date.day)[1]

\* getMonth(): 0 for January.
getMonth(date) == CivilFromDays(date.day)[2] - 1

getDate(date) == CivilFromDays(date.day)[3]

\* getDay(): 0 for Sunday ... 6 for Saturday; 1970-01-01 was a Thursday.
getDay(date) == (date.day + 4) % 7

\* date.setDate(dayOfMonth): same month and time of day, carrying over.
setDate(date, dayOfMonth) ==
    MakeDate(getFullYear(date), getMonth(date), dayOfMonth, date.ms)

\* date.setHours(23, 59, 59, 999).
setHoursEndOfDay(date) == At(date.day, EndOfDayMs)

\* String(n).padStart(2, '0').
padStart2(n) == IF Len(ToString(n)) < 2 THEN "0" \o ToString(n) ELSE ToString(n)

(***************************************************************************)
(* Values of the query surface.                                            *)
(***************************************************************************)
\* A query field that was not supplied (JavaScript undefined).
Undefined == "undefined"

\* enum GroupBy.
GroupBy == [DAY |-> "day", WEEK |-> "week", MONTH |-> "month", YEAR |-> "year"]

\* enum Period.
Period ==
    [TODAY |-> "today", YESTERDAY |-> "yesterday", LAST_WEEK |-> "lastweek",
     LAST_MONTH |-> "lastmonth", LAST_YEAR |-> "lastyear",
     THIS_WEEK |-> "thisweek", THIS_MONTH |-> "thismonth",
     THIS_YEAR |-> "thisyear"]

\* JavaScript truthiness of an optional string: undefined and '' are falsy.
Truthy(s) == s # Undefined /\ s # ""

\* The three aggregation operations.
OpTotal == "calculateSumByDuration"

OpIncome == "getIncomeSumByDuration"

OpExpenses == "getExpensesSumByDuration"

ErrGroupBy == "Unsupported groupBy value"

ErrPeriod == "Unsupported period value"

\* Rejections of a failing store: the one the tests produce, and an I/O error.
StoreErrors == {"Database error", "EIO: i/o error"}

\* Outcome of an operation: a list of group summaries, or a thrown Error.
Ok(groups) == [status |-> "ok", error |-> "", groups |-> groups]

Err(message) == [status |-> "error", error |-> message, groups |-> <<>>]

NoResult == [status |-> "none", error |-> "", groups |-> <<>>]

\* State of the promise returned by the store's findByDateRange.
NoFetch == [state |-> "none", reason |-> ""]

Pending == [state |-> "pending", reason |-> ""]

Fulfilled == [state |-> "fulfilled", reason |-> ""]

Rejected(reason) == [state |-> "rejected", reason |-> reason]

NoRange == [error |-> "", startDate |-> Epoch, endDate |-> Epoch]

NoQuery ==
    [op |-> "", groupBy |-> Undefined, period |-> Undefined,
     startDate |-> {}, endDate |-> {}]

(***************************************************************************)
(* SummationService: period keys.                                          *)
(***************************************************************************)
\* Date.UTC(date.getFullYear(), date.getMonth(), date.getDate()).
utcDay(date) == MakeDate(getFullYear(date), getMonth(date), getDate(date), 0)

\* Variant of dayNumOf that leaves Sunday as day 0.
dayNumOfSundayZero(d) == getDay(d)

\* d.getUTCDay() || 7.
dayNumOf(d) == IF getDay(d) = 0 THEN 7 ELSE getDay(d)

\* d.setUTCDate(d.getUTCDate() + 4 - dayNum): the Thursday of d's week.
thursdayOf(d) == setDate(d, getDate(d) + 4 - dayNumOf(d))

\* new Date(Date.UTC(d.getUTCFullYear(), 0, 1)).
yearStartOf(d) == MakeDate(getFullYear(d), 0, 1, 0)

\* Variant of weekOfThursday that rounds the week count down (Math.floor).
weekOfThursdayFloor(d) == (DaysBetween(d, yearStartOf(d)) + 1) \div 7

\* Math.ceil(((d - yearStart) / 86400000 + 1) / 7), d being the Thursday.
weekOfThursday(d) == ((DaysBetween(d, yearStartOf(d)) + 1) + 6) \div 7

\* getWeekNumber: move to the Thursday of the date's week and count the
\* weeks from January 1 of that Thursday's year.
getWeekNumber(date) == weekOfThursday(thursdayOf(utcDay(date)))

\* Variant of keyOf whose default branch answers the month key instead of
\* throwing.
keyOfDefaultMonth(year, month, day, date, groupBy) ==
    CASE groupBy = GroupBy.DAY   -> year \o "-" \o month \o "-" \o day
      [] groupBy = GroupBy.WEEK  -> year \o "-W" \o padStart2(getWeekNumber(date))
      [] groupBy = GroupBy.YEAR  -> year
      [] OTHER                   -> year \o "-" \o month

\* Variant of keyOf whose month key leaves out the year.
keyOfMonthOnly(year, month, day, date, groupBy) ==
    CASE groupBy = GroupBy.DAY   -> year \o "-" \o month \o "-" \o day
      [] groupBy = GroupBy.WEEK  -> year \o "-W" \o padStart2(getWeekNumber(date))
      [] groupBy = GroupBy.MONTH -> month
      [] groupBy = GroupBy.YEAR  -> year
      [] OTHER                   -> ErrGroupBy

\* The switch of getPeriodKey; its default branch throws, which is returned
\* here as the error message.
keyOf(year, month, day, date, groupBy) ==
    CASE groupBy = GroupBy.DAY   -> year \o "-" \o month \o "-" \o day
      [] groupBy = GroupBy.WEEK  -> year \o "-W" \o padStart2(getWeekNumber(date))
      [] groupBy = GroupBy.MONTH -> year \o "-" \o month
      [] groupBy = GroupBy.YEAR  -> year
      [] OTHER                   -> ErrGroupBy

\* getPeriodKey: the key of a date under a groupBy value.
getPeriodKey(date, groupBy) ==
    keyOf(ToString(getFullYear(date)), padStart2(getMonth(date) + 1),
          padStart2(getDate(date)), date, groupBy)

(***************************************************************************)
(* SummationService: grouping and summation.                               *)
(***************************************************************************)
\* Variant of pushRecord that replaces the members of a key already seen
\* (grouped.set(key, [record])) instead of pushing to them.
pushRecordOverwrite(grouped, key, record) ==
    IF \E i \in 1..Len(grouped) : grouped[i].period = key
    THEN [i \in 1..Len(grouped) |->
             IF grouped[i].period = key
             THEN [grouped[i] EXCEPT !.periodRecords = <<record>>]
             ELSE grouped[i]]
    ELSE Append(grouped, [period |-> key, periodRecords |-> <<record>>])

\* Variant of pushRecord that puts a key not yet seen in front of the keys
\* already seen.
pushRecordFront(grouped, key, record) ==
    IF \E i \in 1..Len(grouped) : grouped[i].period = key
    THEN [i \in 1..Len(grouped) |->
             IF grouped[i].period = key
             THEN [grouped[i] EXCEPT !.periodRecords = Append(@, record)]
             ELSE grouped[i]]
    ELSE <<[period |-> key, periodRecords |-> <<record>>]>> \o grouped

\* if (!grouped.has(key)) grouped.set(key, []); grouped.get(key).push(record):
\* the Map keeps its keys in insertion order.
pushRecord(grouped, key, record) ==
    IF \E i \in 1..Len(grouped) : grouped[i].period = key
    THEN [i \in 1..Len(grouped) |->
             IF grouped[i].period = key
             THEN [grouped[i] EXCEPT !.periodRecords = Append(@, record)]
             ELSE grouped[i]]
    ELSE Append(grouped, [period |-> key, periodRecords |-> <<record>>])

\* The forEach of groupAndSum: the insertion-ordered Map from key to members.
RECURSIVE groupRecords(_, _, _)
groupRecords(recs, groupBy, grouped) ==
    IF recs = <<>> THEN grouped
    ELSE groupRecords(Tail(recs), groupBy,
                      pushRecord(grouped,
                                 getPeriodKey(Head(recs).date, groupBy),
                                 Head(recs)))

\* periodRecords.reduce((sum, r) => sum + r.amount, 0).
RECURSIVE sumAmounts(_)
sumAmounts(recs) ==
    IF recs = <<>> THEN 0 ELSE Head(recs).amount + sumAmounts(Tail(recs))

\* Variant of minDate that takes the date of the first member.
minDateFirst(recs) == recs[1].date

\* Math.min(...dates) and Math.max(...dates) of a non-empty list.
minDate(recs) ==
    CHOOSE t \in {recs[i].date : i \in 1..Len(recs)} :
        \A i \in 1..Len(recs) : Leq(t, recs[i].date)

maxDate(recs) ==
    CHOOSE t \in {recs[i].date : i \in 1..Len(recs)} :
        \A i \in 1..Len(recs) : Leq(recs[i].date, t)

\* Variant of summaryOf that counts the distinct dates of a group instead of
\* its members.
summaryOfCountDates(period, periodRecords) ==
    [period    |-> period,
     total     |-> sumAmounts(periodRecords),
     count     |-> Cardinality({periodRecords[i].date :
                                    i \in 1..Len(periodRecords)}),
     startDate |-> minDate(periodRecords),
     endDate   |-> maxDate(periodRecords)]

\* The map over grouped.entries(): the summary of one group.
summaryOf(period, periodRecords) ==
    [period    |-> period,
     total     |-> sumAmounts(periodRecords),
     count     |-> Len(periodRecords),
     startDate |-> minDate(periodRecords),
     endDate   |-> maxDate(periodRecords)]

summariesOf(grouped) ==
    [i \in 1..Len(grouped) |->
        summaryOf(grouped[i].period, grouped[i].periodRecords)]

\* groupAndSum: one summary per key, in first-seen order; throws when
\* getPeriodKey throws for a record.
groupAndSum(recs, groupBy) ==
    IF \E i \in 1..Len(recs) : getPeriodKey(recs[i].date, groupBy) = ErrGroupBy
    THEN Err(ErrGroupBy)
    ELSE Ok(summariesOf(groupRecords(recs, groupBy, <<>>)))

\* Variant of filterRecords without any filter.
filterRecordsUnfiltered(op, recs) == recs

\* Variant of filterRecords whose filters let a zero amount through
\* (amount >= 0, amount <= 0).
filterRecordsZeroIncluded(op, recs) ==
    CASE op = OpIncome   -> SelectSeq(recs, LAMBDA r : r.amount >= 0)
      [] op = OpExpenses -> SelectSeq(recs, LAMBDA r : r.amount <= 0)
      [] OTHER           -> recs

\* Variant of filterRecords whose income filter is missing.
filterRecordsIncomeUnfiltered(op, recs) ==
    CASE op = OpExpenses -> SelectSeq(recs, LAMBDA r : r.amount < 0)
      [] OTHER           -> recs

\* records.filter(...) of the three operations.
filterRecords(op, recs) ==
    CASE op = OpIncome   -> SelectSeq(recs, LAMBDA r : r.amount > 0)
      [] op = OpExpenses -> SelectSeq(recs, LAMBDA r : r.amount < 0)
      [] OTHER           -> recs

\* Variant of effectiveGroupBy whose default is the day.
effectiveGroupByDay(q) == IF Truthy(q.groupBy) THEN q.groupBy ELSE GroupBy.DAY

\* query.groupBy || GroupBy.MONTH.
effectiveGroupBy(q) == IF Truthy(q.groupBy) THEN q.groupBy ELSE GroupBy.MONTH

(***************************************************************************)
(* SummationService: date window.                                          *)
(***************************************************************************)
Range(startDate, endDate) ==
    [error |-> "", startDate |-> startDate, endDate |-> endDate]

\* const today: the clock's calendar day at 00:00:00.000.
todayOf(clock) ==
    MakeDate(getFullYear(clock), getMonth(clock), getDate(clock), 0)

\* Variant of endOfToday that ends at the start of today.
endOfTodayMidnight(today) ==
    MakeDate(getFullYear(today), getMonth(today), getDate(today), 0)

\* const endDate: today at 23:59:59.999.
endOfToday(today) ==
    MakeDate(getFullYear(today), getMonth(today), getDate(today), EndOfDayMs)

\* Variant of yesterdayOf that stays within the month of today.
yesterdayOfSameMonth(today) ==
    MakeDate(getFullYear(today), getMonth(today),
             IF getDate(today) = 1 THEN 1 ELSE getDate(today) - 1, today.ms)

\* case Period.YESTERDAY.
yesterdayOf(today) == setDate(today, getDate(today) - 1)

yesterdayRange(today) ==
    Range(yesterdayOf(today), setHoursEndOfDay(yesterdayOf(today)))

\* Variant of startOfWeek without the special case for Sunday.
startOfWeekNoSunday(today) ==
    setDate(today, getDate(today) - getDay(today) + 1)

\* case Period.THIS_WEEK: startOfWeek, with Sunday (getDay() = 0) counted as
\* the last day of the week.
startOfWeek(today) ==
    setDate(today, getDate(today) - getDay(today)
                     + (IF getDay(today) = 0 THEN -6 ELSE 1))

\* case Period.LAST_WEEK.
startOfLastWeekOf(today) == setDate(today, getDate(today) - getDay(today) - 6)

endOfLastWeekOf(startOfLastWeek) ==
    setHoursEndOfDay(setDate(startOfLastWeek, getDate(startOfLastWeek) + 6))

lastWeekRange(today) ==
    Range(startOfLastWeekOf(today), endOfLastWeekOf(startOfLastWeekOf(today)))

\* Variant of lastMonthRange that ends on day 31 of month - 1 instead of
\* day 0 of this month.
lastMonthRangeDay31(today) ==
    Range(MakeDate(getFullYear(today), getMonth(today) - 1, 1, 0),
          setHoursEndOfDay(
              MakeDate(getFullYear(today), getMonth(today) - 1, 31, 0)))

\* case Period.LAST_MONTH: day 1 of month - 1 to day 0 of this month.
lastMonthRange(today) ==
    Range(MakeDate(getFullYear(today), getMonth(today) - 1, 1, 0),
          setHoursEndOfDay(MakeDate(getFullYear(today), getMonth(today), 0, 0)))

\* Variant of lastYearRange that ends at 00:00:00.000 of December 31st.
lastYearRangeNoEndOfDay(today) ==
    Range(MakeDate(getFullYear(today) - 1, 0, 1, 0),
          MakeDate(getFullYear(today) - 1, 11, 31, 0))

\* case Period.LAST_YEAR.
lastYearRange(today) ==
    Range(MakeDate(getFullYear(today) - 1, 0, 1, 0),
          setHoursEndOfDay(MakeDate(getFullYear(today) - 1, 11, 31, 0)))

\* The switch of getPeriodDateRange; its default branch throws.
periodRange(period, today, endDate) ==
    CASE period = Period.TODAY      -> Range(today, endDate)
      [] period = Period.YESTERDAY  -> yesterdayRange(today)
      [] period = Period.THIS_WEEK  -> Range(startOfWeek(today), endDate)
      [] period = Period.LAST_WEEK  -> lastWeekRange(today)
      [] period = Period.THIS_MONTH ->
           Range(MakeDate(getFullYear(today), getMonth(today), 1, 0), endDate)
      [] period = Period.LAST_MONTH -> lastMonthRange(today)
      [] period = Period.THIS_YEAR  ->
           Range(MakeDate(getFullYear(today), 0, 1, 0), endDate)
      [] period = Period.LAST_YEAR  -> lastYearRange(today)
      [] OTHER -> [error |-> ErrPeriod, startDate |-> Epoch, endDate |-> Epoch]

\* getPeriodDateRange: the window of a period preset relative to the clock.
getPeriodDateRange(period, clock) ==
    periodRange(period, todayOf(clock), endOfToday(todayOf(clock)))

\* Variant of getDateRange that ignores a period it does not know and falls
\* back to the explicit bounds.
getDateRangeLenient(q, clock) ==
    IF q.period \in {Period.TODAY, Period.YESTERDAY, Period.LAST_WEEK,
                     Period.LAST_MONTH, Period.LAST_YEAR, Period.THIS_WEEK,
                     Period.THIS_MONTH, Period.THIS_YEAR}
    THEN getPeriodDateRange(q.period, clock)
    ELSE Range(IF q.startDate = {} THEN Epoch ELSE CHOOSE t \in q.startDate : TRUE,
               IF q.endDate = {} THEN clock ELSE CHOOSE t \in q.endDate : TRUE)

\* Variant of getDateRange in which explicit bounds, when supplied, win over
\* the period.
getDateRangeExplicitFirst(q, clock) ==
    IF Truthy(q.period) /\ q.startDate = {} /\ q.endDate = {}
    THEN getPeriodDateRange(q.period, clock)
    ELSE Range(IF q.startDate = {} THEN Epoch ELSE CHOOSE t \in q.startDate : TRUE,
               IF q.endDate = {} THEN clock ELSE CHOOSE t \in q.endDate : TRUE)

\* Variant of getDateRange that ends every window without a period at the
\* clock, whatever endDate the query carries.
getDateRangeClockEnd(q, clock) ==
    IF Truthy(q.period)
    THEN getPeriodDateRange(q.period, clock)
    ELSE Range(IF q.startDate = {} THEN Epoch ELSE CHOOSE t \in q.startDate : TRUE,
               clock)

\* Variant of getDateRange that takes the explicit bounds only when both are
\* supplied, and both defaults otherwise.
getDateRangeBothOrNone(q, clock) ==
    IF Truthy(q.period)
    THEN getPeriodDateRange(q.period, clock)
    ELSE IF q.startDate = {} \/ q.endDate = {}
         THEN Range(Epoch, clock)
         ELSE Range(CHOOSE t \in q.startDate : TRUE,
                    CHOOSE t \in q.endDate : TRUE)

\* getDateRange: a truthy period wins over the explicit bounds; a missing
\* start is the epoch and a missing end is the clock.
getDateRange(q, clock) ==
    IF Truthy(q.period)
    THEN getPeriodDateRange(q.period, clock)
    ELSE Range(IF q.startDate = {} THEN Epoch ELSE CHOOSE t \in q.startDate : TRUE,
               IF q.endDate = {} THEN clock ELSE CHOOSE t \in q.endDate : TRUE)

(***************************************************************************)
(* InMemoryTransactionRepository.                                          *)
(***************************************************************************)
\* A calendar day at 00:00:00.000.
Day(y, m, d) == At(DaysFromCivil(y, m, d), 0)

\* The transactions the repository is constructed with.
SeedTransactions ==
    << [id |-> 1, amount |-> 1000, date |-> Day(2025, 1, 1)],
       [id |-> 2, amount |-> -50,  date |-> Day(2025, 1, 2)],
       [id |-> 3, amount |-> -200, date |-> Day(2025, 1, 3)] >>

\* Variant of findByDateRange whose end bound is exclusive.
findByDateRangeBeforeEnd(stored, startDate, endDate) ==
    SelectSeq(stored,
              LAMBDA t : Leq(startDate, t.date) /\ Leq(t.date, endDate)
                             /\ t.date # endDate)

\* findByDateRange: the stored transactions dated within [startDate, endDate].
findByDateRange(stored, startDate, endDate) ==
    SelectSeq(stored, LAMBDA t : Leq(startDate, t.date) /\ Leq(t.date, endDate))

\* transactions.findIndex((t) => t.id === id), counted from 1; 0 when no
\* stored transaction has the id (JavaScript's -1).
findIndex(stored, id) ==
    IF \E i \in 1..Len(stored) : stored[i].id = id
    THEN CHOOSE i \in 1..Len(stored) :
             /\ stored[i].id = id
             /\ \A j \in 1..(i - 1) : stored[j].id # id
    ELSE 0

\* A Partial<Transaction>: each field is absent ({}) or supplied ({v}).
Patch(amounts, dates) == [amount : amounts, date : dates]

\* { ...transaction, ...transactionUpdate }: the supplied fields replace the
\* stored ones.
merged(transaction, transactionUpdate) ==
    [id     |-> transaction.id,
     amount |-> IF transactionUpdate.amount = {} THEN transaction.amount
                ELSE CHOOSE a \in transactionUpdate.amount : TRUE,
     date   |-> IF transactionUpdate.date = {} THEN transaction.date
                ELSE CHOOSE d \in transactionUpdate.date : TRUE]

\* The store after update(id, transactionUpdate): unchanged when the id is
\* not found.
updated(stored, index, transactionUpdate) ==
    IF index = 0 THEN stored
    ELSE [stored EXCEPT ![index] = merged(stored[index], transactionUpdate)]

\* transactions.splice(index, 1); unchanged when the id is not found.
spliced(stored, index) ==
    IF index = 0 THEN stored
    ELSE SubSeq(stored, 1, index - 1) \o SubSeq(stored, index + 1, Len(stored))


\* randomUUID(): an id no stored transaction has.
freshId(stored) ==
    1 + CHOOSE m \in {0} \cup {stored[i].id : i \in 1..Len(stored)} :
            \A i \in 1..Len(stored) : m >= stored[i].id

(***************************************************************************)
(* State machine.  The service keeps no state of its own: every aggregation *)
(* request r has its own locals (query, now, dateRange, records, result)    *)
(* and is suspended once, at the await of the store's findByDateRange.      *)
(* Requests share the repository only, which may be written at any moment.  *)
(***************************************************************************)
\* The requests of a behaviour.
Requests == DOMAIN pc

\* The state after construction, with the given requests not yet made.
InitRequests(requests) ==
    /\ transactions = SeedTransactions
    /\ pc = [r \in requests |-> "idle"]
    /\ query = [r \in requests |-> NoQuery]
    /\ now = [r \in requests |-> Epoch]
    /\ dateRange = [r \in requests |-> NoRange]
    /\ calls = [r \in requests |-> <<>>]
    /\ fetch = [r \in requests |-> NoFetch]
    /\ records = [r \in requests |-> <<>>]
    /\ result = [r \in requests |-> NoResult]

Init == InitRequests({1})

\* InMemoryTransactionRepository.save: push a copy of the transaction.
save(amount, date) ==
    /\ Len(transactions) < Len(SeedTransactions) + MaxTx
    /\ freshId(transactions) <= Len(SeedTransactions) + MaxTx
    /\ transactions' =
           Append(transactions,
                  [id |-> freshId(transactions), amount |-> amount, date |-> date])
    /\ UNCHANGED <<pc, query, now, dateRange, calls, fetch, records, result>>

\* InMemoryTransactionRepository.update: replace the stored transaction of
\* the id by its merge with the update, in place.
update(id, transactionUpdate) ==
    /\ transactions' =
           updated(transactions, findIndex(transactions, id), transactionUpdate)
    /\ UNCHANGED <<pc, query, now, dateRange, calls, fetch, records, result>>

\* InMemoryTransactionRepository.delete: remove the stored transaction of
\* the id.
delete(id) ==
    /\ transactions' = spliced(transactions, findIndex(transactions, id))
    /\ UNCHANGED <<pc, query, now, dateRange, calls, fetch, records, result>>

\* A call of the repository, as the service makes it:
\* this.repository.findByDateRange(dateRange.startDate, dateRange.endDate).
Call(startDate, endDate) ==
    [method |-> "findByDateRange", startDate |-> startDate,
     endDate |-> endDate]

\* Variant of fetchOrThrow that reads the whole store with findAll and
\* selects the transactions of the window itself.
fetchOrThrowFindAll(r, range) ==
    IF range.error # ""
    THEN /\ dateRange' = [dateRange EXCEPT ![r] = NoRange]
         /\ calls' = [calls EXCEPT ![r] = <<>>]
         /\ fetch' = [fetch EXCEPT ![r] = NoFetch]
         /\ records' = [records EXCEPT ![r] = <<>>]
         /\ result' = [result EXCEPT ![r] = Err(range.error)]
         /\ pc' = [pc EXCEPT ![r] = "done"]
    ELSE /\ dateRange' = [dateRange EXCEPT ![r] = range]
         /\ calls' = [calls EXCEPT ![r] =
                         <<[method |-> "findAll", startDate |-> Epoch,
                            endDate |-> Epoch]>>]
         /\ fetch' = [fetch EXCEPT ![r] = Pending]
         /\ records' =
                [records EXCEPT ![r] =
                    findByDateRange(transactions, range.startDate,
                                    range.endDate)]
         /\ result' = [result EXCEPT ![r] = NoResult]
         /\ pc' = [pc EXCEPT ![r] = "awaiting"]

\* Variant of fetchOrThrow in which the summation repository is an instance
\* of its own, holding the transactions it was constructed with.
fetchOrThrowOwnInstance(r, range) ==
    IF range.error # ""
    THEN /\ dateRange' = [dateRange EXCEPT ![r] = NoRange]
         /\ calls' = [calls EXCEPT ![r] = <<>>]
         /\ fetch' = [fetch EXCEPT ![r] = NoFetch]
         /\ records' = [records EXCEPT ![r] = <<>>]
         /\ result' = [result EXCEPT ![r] = Err(range.error)]
         /\ pc' = [pc EXCEPT ![r] = "done"]
    ELSE /\ dateRange' = [dateRange EXCEPT ![r] = range]
         /\ calls' = [calls EXCEPT ![r] =
                         <<Call(range.startDate, range.endDate)>>]
         /\ fetch' = [fetch EXCEPT ![r] = Pending]
         /\ records' =
                [records EXCEPT ![r] =
                    findByDateRange(SeedTransactions, range.startDate,
                                    range.endDate)]
         /\ result' = [result EXCEPT ![r] = NoResult]
         /\ pc' = [pc EXCEPT ![r] = "awaiting"]

\* The call of the store with a resolved window, or the throw of
\* getDateRange.
fetchOrThrow(r, range) ==
    IF range.error # ""
    THEN /\ dateRange' = [dateRange EXCEPT ![r] = NoRange]
         /\ calls' = [calls EXCEPT ![r] = <<>>]
         /\ fetch' = [fetch EXCEPT ![r] = NoFetch]
         /\ records' = [records EXCEPT ![r] = <<>>]
         /\ result' = [result EXCEPT ![r] = Err(range.error)]
         /\ pc' = [pc EXCEPT ![r] = "done"]
    ELSE /\ dateRange' = [dateRange EXCEPT ![r] = range]
         /\ calls' = [calls EXCEPT ![r] =
                         <<Call(range.startDate, range.endDate)>>]
         /\ fetch' = [fetch EXCEPT ![r] = Pending]
         /\ records' =
                [records EXCEPT ![r] =
                    findByDateRange(transactions, range.startDate,
                                    range.endDate)]
         /\ result' = [result EXCEPT ![r] = NoResult]
         /\ pc' = [pc EXCEPT ![r] = "awaiting"]

\* The synchronous head of an aggregation operation, up to its await:
\* getDateRange reads the clock and may throw; otherwise findByDateRange is
\* called once with the window and the operation is suspended.
invoke(r, op, q, clock) ==
    /\ pc[r] = "idle"
    /\ query' = [query EXCEPT ![r] = [q EXCEPT !.op = op]]
    /\ now' = [now EXCEPT ![r] = clock]
    /\ fetchOrThrow(r, getDateRange(q, clock))
    /\ UNCHANGED transactions

calculateSumByDuration(r, q, clock) == invoke(r, OpTotal, q, clock)

getIncomeSumByDuration(r, q, clock) == invoke(r, OpIncome, q, clock)

getExpensesSumByDuration(r, q, clock) == invoke(r, OpExpenses, q, clock)

\* Variant of fetchFulfilled in which the fetched list is not a copy but a
\* live view of the store, read when the operation resumes.
fetchFulfilledLive(r) ==
    /\ pc[r] = "awaiting"
    /\ fetch' = [fetch EXCEPT ![r] = Fulfilled]
    /\ result' =
           [result EXCEPT ![r] =
               groupAndSum(filterRecords(query[r].op,
                               findByDateRange(transactions,
                                               dateRange[r].startDate,
                                               dateRange[r].endDate)),
                           effectiveGroupBy(query[r]))]
    /\ pc' = [pc EXCEPT ![r] = "done"]
    /\ UNCHANGED <<transactions, query, now, dateRange, calls, records>>

\* Variant of fetchFulfilled that filters the store's own list in place
\* instead of the fetched copy.
fetchFulfilledInPlace(r) ==
    /\ pc[r] = "awaiting"
    /\ fetch' = [fetch EXCEPT ![r] = Fulfilled]
    /\ result' =
           [result EXCEPT ![r] =
               groupAndSum(filterRecords(query[r].op, records[r]),
                           effectiveGroupBy(query[r]))]
    /\ transactions' = filterRecords(query[r].op, transactions)
    /\ pc' = [pc EXCEPT ![r] = "done"]
    /\ UNCHANGED <<query, now, dateRange, calls, records>>

\* The store's promise is fulfilled: the operation filters the fetched
\* records by sign and returns groupAndSum of them (or its Error).
fetchFulfilled(r) ==
    /\ pc[r] = "awaiting"
    /\ fetch' = [fetch EXCEPT ![r] = Fulfilled]
    /\ result' =
           [result EXCEPT ![r] =
               groupAndSum(filterRecords(query[r].op, records[r]),
                           effectiveGroupBy(query[r]))]
    /\ pc' = [pc EXCEPT ![r] = "done"]
    /\ UNCHANGED <<transactions, query, now, dateRange, calls, records>>

\* Variant of fetchRejected that swallows the rejection and answers an empty
\* list.
fetchRejectedSwallowed(r, reason) ==
    /\ pc[r] = "awaiting"
    /\ fetch' = [fetch EXCEPT ![r] = Rejected(reason)]
    /\ result' = [result EXCEPT ![r] = Ok(<<>>)]
    /\ records' = [records EXCEPT ![r] = <<>>]
    /\ pc' = [pc EXCEPT ![r] = "done"]
    /\ UNCHANGED <<transactions, query, now, dateRange, calls>>

\* The store's promise is rejected: the await rethrows the reason and the
\* operation ends with it.
fetchRejected(r, reason) ==
    /\ pc[r] = "awaiting"
    /\ fetch' = [fetch EXCEPT ![r] = Rejected(reason)]
    /\ result' = [result EXCEPT ![r] = Err(reason)]
    /\ records' = [records EXCEPT ![r] = <<>>]
    /\ pc' = [pc EXCEPT ![r] = "done"]
    /\ UNCHANGED <<transactions, query, now, dateRange, calls>>

\* The caller has received the outcome; the service keeps nothing of it.
respond(r) ==
    /\ pc[r] = "done"
    /\ pc' = [pc EXCEPT ![r] = "idle"]
    /\ query' = [query EXCEPT ![r] = NoQuery]
    /\ now' = [now EXCEPT ![r] = Epoch]
    /\ dateRange' = [dateRange EXCEPT ![r] = NoRange]
    /\ calls' = [calls EXCEPT ![r] = <<>>]
    /\ fetch' = [fetch EXCEPT ![r] = NoFetch]
    /\ records' = [records EXCEPT ![r] = <<>>]
    /\ result' = [result EXCEPT ![r] = NoResult]
    /\ UNCHANGED transactions

(***************************************************************************)
(* Transaction endpoints: TransactionsController over TransactionsService   *)
(* over the repository.  A handler reads the store once, with findAll, and  *)
(* its outcome is fixed by what it has read.                                *)
(***************************************************************************)
ErrNotFound == "NotFoundException"

OpFindOne == "findOne"

OpUpdate == "update"

OpRemove == "remove"

\* What a service method hands to the controller: the exception it threw
\* ("" for none), the value it returned (<<>> for undefined) and the store
\* it leaves.
Outcome(thrown, value, stored) ==
    [thrown |-> thrown, value |-> value, stored |-> stored]

\* InMemoryTransactionRepository.findAll: a new array of copies of the
\* stored transactions.
findAll(stored) == stored

\* TransactionsService.findById: find in the array findAll returned.
TransactionsService_findById(stored, id) ==
    IF findIndex(findAll(stored), id) = 0
    THEN Outcome(ErrNotFound, <<>>, stored)
    ELSE Outcome("", <<findAll(stored)[findIndex(findAll(stored), id)]>>, stored)

\* TransactionsService.update: the merged transaction is assigned to the
\* array findAll returned and is returned; the repository is not called
\* again.
TransactionsService_update(stored, id, dto) ==
    IF findIndex(findAll(stored), id) = 0
    THEN Outcome(ErrNotFound, <<>>, stored)
    ELSE Outcome("",
                 <<merged(findAll(stored)[findIndex(findAll(stored), id)], dto)>>,
                 stored)

\* TransactionsService.delete: the element is spliced out of the array
\* findAll returned and nothing is returned; the repository is not called
\* again.
TransactionsService_delete(stored, id) ==
    IF findIndex(findAll(stored), id) = 0
    THEN Outcome(ErrNotFound, <<>>, stored)
    ELSE Outcome("", <<>>, stored)

\* The controller's handling of what the service hands over: a thrown
\* exception passes through, a falsy value (!transaction, !deleted) becomes
\* NotFoundException, anything else is the response.
responseOf(outcome) ==
    IF outcome.thrown # "" THEN Err(outcome.thrown)
    ELSE IF outcome.value = <<>> THEN Err(ErrNotFound)
    ELSE Ok(outcome.value)

\* A handler of TransactionsController, from the request to its response.
handle(r, op, id, outcome) ==
    /\ pc[r] = "idle"
    /\ query' = [query EXCEPT ![r] = [op |-> op, id |-> id]]
    /\ calls' = [calls EXCEPT ![r] =
                    <<[method |-> "findAll", startDate |-> Epoch,
                       endDate |-> Epoch]>>]
    /\ transactions' = outcome.stored
    /\ result' = [result EXCEPT ![r] = responseOf(outcome)]
    /\ pc' = [pc EXCEPT ![r] = "done"]
    /\ UNCHANGED <<now, dateRange, fetch, records>>

\* GET /transactions/:id.
findOne(r, id) ==
    handle(r, OpFindOne, id, TransactionsService_findById(transactions, id))

\* PUT /transactions/:id.
TransactionsController_update(r, id, dto) ==
    handle(r, OpUpdate, id, TransactionsService_update(transactions, id, dto))

\* DELETE /transactions/:id.
remove(r, id) ==
    handle(r, OpRemove, id, TransactionsService_delete(transactions, id))

(***************************************************************************)
(* Inputs.                                                                 *)
(***************************************************************************)
\* 12:34:56.789
Noon == 12 * 3600000 + 34 * 60000 + 56 * 1000 + 789

GroupByValues ==
    {Undefined, "", GroupBy.DAY, GroupBy.WEEK, GroupBy.MONTH, GroupBy.YEAR,
     "INVALID"}

PeriodNames ==
    {Period.TODAY, Period.YESTERDAY, Period.LAST_WEEK, Period.LAST_MONTH,
     Period.LAST_YEAR, Period.THIS_WEEK, Period.THIS_MONTH, Period.THIS_YEAR}

PeriodValues == {Undefined, "", "INVALID"} \cup PeriodNames

Queries(groupBys, periods, starts, ends) ==
    [op : {""}, groupBy : groupBys, period : periods,
     startDate : starts, endDate : ends]

\* Specification Spec: the store varies, the window is [epoch, now] or
\* [epoch, end of 2024].
Amounts == {-50, 0, 100}

TxDates ==
    {Day(2023, 12, 30), Day(2024, 1, 1), Day(2024, 12, 30), Day(2025, 1, 1)}

SpecNows == {At(DaysFromCivil(2025, 6, 15), Noon)}

SpecQueries ==
    Queries(GroupByValues, {Undefined}, {{}}, {{}, {Day(2024, 12, 31)}})

Next ==
    \/ \E a \in Amounts, d \in TxDates : save(a, d)
    \/ \E r \in Requests, q \in SpecQueries, n \in SpecNows :
           calculateSumByDuration(r, q, n)
    \/ \E r \in Requests, q \in SpecQueries, n \in SpecNows :
           getIncomeSumByDuration(r, q, n)
    \/ \E r \in Requests, q \in SpecQueries, n \in SpecNows :
           getExpensesSumByDuration(r, q, n)
    \/ \E r \in Requests : fetchFulfilled(r)
    \/ \E r \in Requests, e \in StoreErrors : fetchRejected(r, e)
    \/ \E r \in Requests : respond(r)

Spec == Init /\ [][Next]_vars

\* Specification SpecWindow: the clock, the period and the explicit bounds
\* vary; the store keeps the transactions it was constructed with.
WindowDays ==
    (DaysFromCivil(2025, 6, 9) .. DaysFromCivil(2025, 6, 15))
        \cup {DaysFromCivil(2024, 1, 1), DaysFromCivil(2024, 3, 1),
              DaysFromCivil(2024, 3, 31),
              DaysFromCivil(2025, 1, 5), DaysFromCivil(2025, 3, 1),
              DaysFromCivil(2025, 5, 31), DaysFromCivil(2025, 7, 1)}

WindowNows == {At(d, ms) : d \in WindowDays, ms \in {0, Noon}}

WindowQueries ==
    Queries({Undefined}, PeriodValues,
            {{}, {At(DaysFromCivil(2020, 1, 1), Noon)}},
            {{}, {At(DaysFromCivil(2020, 12, 31), Noon)}})

NextWindow ==
    \/ \E r \in Requests, q \in WindowQueries, n \in WindowNows :
           calculateSumByDuration(r, q, n)
    \/ \E r \in Requests, q \in WindowQueries, n \in WindowNows :
           getIncomeSumByDuration(r, q, n)
    \/ \E r \in Requests, q \in WindowQueries, n \in WindowNows :
           getExpensesSumByDuration(r, q, n)
    \/ \E r \in Requests : fetchFulfilled(r)
    \/ \E r \in Requests, e \in StoreErrors : fetchRejected(r, e)
    \/ \E r \in Requests : respond(r)

SpecWindow == Init /\ [][NextWindow]_vars


\* Specification SpecGroup: the store holds any list of up to MaxLen
\* transactions (it is what saves and deletes have left); the window is
\* [epoch, now] and the groupBy varies.
GroupDates ==
    {At(DaysFromCivil(2024, 1, 15), 0), At(DaysFromCivil(2024, 1, 15), Noon),
     Day(2024, 1, 20), Day(2024, 2, 10), Day(2025, 1, 15),
     At(DaysFromCivil(2023, 12, 31), EndOfDayMs), Day(2024, 1, 1)}

\* The amounts of the stored transactions, by position: 100, -50, 200, 100, ...
GroupAmounts == <<100, -50, 200>>

StoreLists ==
    UNION {[1..n -> GroupDates] : n \in 0..MaxLen}

storeOf(dates) ==
    [i \in 1..Len(dates) |->
        [id |-> i, amount |-> GroupAmounts[((i - 1) % 3) + 1], date |-> dates[i]]]

InitGroup ==
    /\ transactions \in {storeOf(dates) : dates \in StoreLists}
    /\ pc = [r \in {1} |-> "idle"]
    /\ query = [r \in {1} |-> NoQuery]
    /\ now = [r \in {1} |-> Epoch]
    /\ dateRange = [r \in {1} |-> NoRange]
    /\ calls = [r \in {1} |-> <<>>]
    /\ fetch = [r \in {1} |-> NoFetch]
    /\ records = [r \in {1} |-> <<>>]
    /\ result = [r \in {1} |-> NoResult]

GroupQueries ==
    Queries({Undefined, GroupBy.DAY, GroupBy.MONTH, GroupBy.YEAR}, {Undefined},
            {{}}, {{}})

NextGroup ==
    \/ \E r \in Requests, q \in GroupQueries, n \in SpecNows :
           calculateSumByDuration(r, q, n)
    \/ \E r \in Requests, q \in GroupQueries, n \in SpecNows :
           getIncomeSumByDuration(r, q, n)
    \/ \E r \in Requests, q \in GroupQueries, n \in SpecNows :
           getExpensesSumByDuration(r, q, n)
    \/ \E r \in Requests : fetchFulfilled(r)
    \/ \E r \in Requests : respond(r)

SpecGroup == InitGroup /\ [][NextGroup]_vars

\* Specification SpecTwice: NumRequests requests are made of a store that is
\* not written; the clock advances from one day to the next.
TwiceNows ==
    {At(DaysFromCivil(2025, 1, 2), Noon), At(DaysFromCivil(2025, 1, 3), Noon)}

TwiceQueries ==
    Queries({GroupBy.DAY}, {Undefined, Period.TODAY}, {{}},
            {{}, {At(DaysFromCivil(2025, 1, 2), EndOfDayMs)}})

InitTwice == InitRequests(1..NumRequests)

NextTwice ==
    \/ \E r \in Requests, q \in TwiceQueries, n \in TwiceNows :
           calculateSumByDuration(r, q, n)
    \/ \E r \in Requests, q \in TwiceQueries, n \in TwiceNows :
           getIncomeSumByDuration(r, q, n)
    \/ \E r \in Requests, q \in TwiceQueries, n \in TwiceNows :
           getExpensesSumByDuration(r, q, n)
    \/ \E r \in Requests : fetchFulfilled(r)

SpecTwice == InitTwice /\ [][NextTwice]_vars

\* Specification SpecConcurrent: NumRequests requests are in flight while
\* the store is written by save, update and delete.
ConcurrentQueries == Queries({GroupBy.MONTH}, {Undefined}, {{}}, {{}})

ConcurrentPatches == Patch({{-75}}, {{}})

InitConcurrent == InitRequests(1..NumRequests)

NextConcurrent ==
    \/ save(100, Day(2025, 1, 2))
    \/ \E u \in ConcurrentPatches : update(2, u)
    \/ delete(2)
    \/ \E r \in Requests, q \in ConcurrentQueries, n \in SpecNows :
           calculateSumByDuration(r, q, n)
    \/ \E r \in Requests, q \in ConcurrentQueries, n \in SpecNows :
           getExpensesSumByDuration(r, q, n)
    \/ \E r \in Requests : fetchFulfilled(r)
    \/ \E r \in Requests : respond(r)

SpecConcurrent == InitConcurrent /\ [][NextConcurrent]_vars

\* Specification SpecRange: the store holds any list of up to MaxLen
\* transactions dated at, next to and between the bounds of January 2024;
\* the query gives both bounds, one of them or none.
RangeStart == Day(2024, 1, 1)

RangeEnd == At(DaysFromCivil(2024, 1, 31), EndOfDayMs)

RangeDates ==
    {At(DaysFromCivil(2023, 12, 31), EndOfDayMs), RangeStart,
     At(DaysFromCivil(2024, 1, 15), Noon), RangeEnd, Day(2024, 2, 1)}

RangeLists ==
    UNION {[1..n -> RangeDates] : n \in 0..MaxLen}

InitRange ==
    /\ transactions \in {storeOf(dates) : dates \in RangeLists}
    /\ pc = [r \in {1} |-> "idle"]
    /\ query = [r \in {1} |-> NoQuery]
    /\ now = [r \in {1} |-> Epoch]
    /\ dateRange = [r \in {1} |-> NoRange]
    /\ calls = [r \in {1} |-> <<>>]
    /\ fetch = [r \in {1} |-> NoFetch]
    /\ records = [r \in {1} |-> <<>>]
    /\ result = [r \in {1} |-> NoResult]

RangeQueries ==
    Queries({GroupBy.MONTH}, {Undefined}, {{}, {RangeStart}}, {{}, {RangeEnd}})

NextRange ==
    \/ \E r \in Requests, q \in RangeQueries, n \in SpecNows :
           calculateSumByDuration(r, q, n)
    \/ \E r \in Requests, q \in RangeQueries, n \in SpecNows :
           getIncomeSumByDuration(r, q, n)
    \/ \E r \in Requests, q \in RangeQueries, n \in SpecNows :
           getExpensesSumByDuration(r, q, n)
    \/ \E r \in Requests : fetchFulfilled(r)
    \/ \E r \in Requests : respond(r)

SpecRange == InitRange /\ [][NextRange]_vars

\* Specification SpecWeek: the store holds one transaction, dated on any
\* day of a span that covers a year of 53 weeks and the turns of other
\* years; the query groups by week.
WeekDays ==
    (DaysFromCivil(2019, 12, 20) .. DaysFromCivil(2021, 1, 15))
        \cup (DaysFromCivil(2024, 12, 23) .. DaysFromCivil(2025, 1, 12))
        \cup (DaysFromCivil(2026, 12, 21) .. DaysFromCivil(2027, 1, 10))
        \cup (DaysFromCivil(2022, 12, 26) .. DaysFromCivil(2023, 1, 8))

InitWeek ==
    /\ transactions \in {storeOf(<<At(d, ms)>>) : d \in WeekDays, ms \in {0, Noon}}
    /\ pc = [r \in {1} |-> "idle"]
    /\ query = [r \in {1} |-> NoQuery]
    /\ now = [r \in {1} |-> Epoch]
    /\ dateRange = [r \in {1} |-> NoRange]
    /\ calls = [r \in {1} |-> <<>>]
    /\ fetch = [r \in {1} |-> NoFetch]
    /\ records = [r \in {1} |-> <<>>]
    /\ result = [r \in {1} |-> NoResult]

WeekQueries == Queries({GroupBy.WEEK}, {Undefined}, {{}}, {{Day(2030, 1, 1)}})

NextWeek ==
    \/ \E r \in Requests, q \in WeekQueries, n \in SpecNows :
           calculateSumByDuration(r, q, n)
    \/ \E r \in Requests, q \in WeekQueries, n \in SpecNows :
           getIncomeSumByDuration(r, q, n)
    \/ \E r \in Requests, q \in WeekQueries, n \in SpecNows :
           getExpensesSumByDuration(r, q, n)
    \/ \E r \in Requests : fetchFulfilled(r)
    \/ \E r \in Requests : respond(r)

SpecWeek == InitWeek /\ [][NextWeek]_vars

\* Specification SpecViews: the three operations are called, one request
\* each, on a store that is not written; the store holds any list of up to
\* MaxLen transactions with positive, negative and zero amounts.
Views == <<OpTotal, OpIncome, OpExpenses>>

ViewDates == {Day(2024, 1, 20), Day(2024, 2, 10)}

ViewLists ==
    UNION {[1..n -> [amount : Amounts, date : ViewDates]] : n \in 0..MaxLen}

viewStoreOf(list) ==
    [i \in 1..Len(list) |->
        [id |-> i, amount |-> list[i].amount, date |-> list[i].date]]

InitViews ==
    /\ transactions \in {viewStoreOf(list) : list \in ViewLists}
    /\ pc = [r \in DOMAIN Views |-> "idle"]
    /\ query = [r \in DOMAIN Views |-> NoQuery]
    /\ now = [r \in DOMAIN Views |-> Epoch]
    /\ dateRange = [r \in DOMAIN Views |-> NoRange]
    /\ calls = [r \in DOMAIN Views |-> <<>>]
    /\ fetch = [r \in DOMAIN Views |-> NoFetch]
    /\ records = [r \in DOMAIN Views |-> <<>>]
    /\ result = [r \in DOMAIN Views |-> NoResult]

ViewQueries == Queries({GroupBy.MONTH, GroupBy.YEAR}, {Undefined}, {{}}, {{}})

NextViews ==
    \/ \E r \in Requests, q \in ViewQueries, n \in SpecNows :
           Views[r] = OpTotal /\ calculateSumByDuration(r, q, n)
    \/ \E r \in Requests, q \in ViewQueries, n \in SpecNows :
           Views[r] = OpIncome /\ getIncomeSumByDuration(r, q, n)
    \/ \E r \in Requests, q \in ViewQueries, n \in SpecNows :
           Views[r] = OpExpenses /\ getExpensesSumByDuration(r, q, n)
    \/ \E r \in Requests : fetchFulfilled(r)

SpecViews == InitViews /\ [][NextViews]_vars

\* Specification SpecCrud: the repository is written by save, update and
\* delete, for ids that are stored and ids that are not, and summation
\* queries are made of it with a window that ends with January 2025 or now.
CrudPatches ==
    {[amount |-> {-75}, date |-> {}], [amount |-> {}, date |-> {Day(2025, 2, 1)}]}

CrudQueries ==
    Queries({GroupBy.MONTH}, {Undefined}, {{}},
            {{}, {At(DaysFromCivil(2025, 1, 31), EndOfDayMs)}})

NextCrud ==
    \/ save(100, Day(2025, 1, 2))
    \/ \E id \in {1, freshId(SeedTransactions)}, u \in CrudPatches :
           update(id, u)
    \/ \E id \in {2, freshId(SeedTransactions)} : delete(id)
    \/ \E r \in Requests, q \in CrudQueries, n \in SpecNows :
           calculateSumByDuration(r, q, n)
    \/ \E r \in Requests, q \in CrudQueries, n \in SpecNows :
           getExpensesSumByDuration(r, q, n)
    \/ \E r \in Requests : fetchFulfilled(r)
    \/ \E r \in Requests : respond(r)

SpecCrud == Init /\ [][NextCrud]_vars

\* Specification SpecEndpoints: transactions are created and the endpoints
\* findOne, update and remove are called with ids of stored transactions,
\* with the id the next created transaction gets, and with an id that is
\* never given.
UnknownId == freshId(SeedTransactions) + MaxTx

EndpointIds == {1, 2, freshId(SeedTransactions), UnknownId}

NextEndpoints ==
    \/ \E a \in Amounts : save(a, Day(2025, 1, 2))
    \/ \E r \in Requests, id \in EndpointIds : findOne(r, id)
    \/ \E r \in Requests, id \in EndpointIds, dto \in CrudPatches :
           TransactionsController_update(r, id, dto)
    \/ \E r \in Requests, id \in EndpointIds : remove(r, id)
    \/ \E r \in Requests : respond(r)

SpecEndpoints == InitRequests(1..NumRequests) /\ [][NextEndpoints]_vars

(***************************************************************************)
(* Properties.                                                             *)
(***************************************************************************)
ValidGroupBys == {GroupBy.DAY, GroupBy.WEEK, GroupBy.MONTH, GroupBy.YEAR}

\* An operation has returned what it computed from a fulfilled fetch.
Returned(r) == pc[r] = "done" /\ fetch[r].state = "fulfilled"

RECURSIVE totalOfGroups(_)
totalOfGroups(groups) ==
    IF groups = <<>> THEN 0
    ELSE Head(groups).total + totalOfGroups(Tail(groups))

RECURSIVE totalOfAmounts(_)
totalOfAmounts(recs) ==
    IF recs = <<>> THEN 0
    ELSE recs[Len(recs)].amount + totalOfAmounts(SubSeq(recs, 1, Len(recs) - 1))

\* The window handed to the store by the only call of the current operation.
CalledWith(r, startDate, endDate) ==
    calls[r] = <<Call(startDate, endDate)>>

\* ISO-8601: the day number of the Monday that starts the week of a day
\* (day 0, 1970-01-01, was a Thursday).
IsoMonday(day) == day - ((day + 3) % 7)

\* C1: conservation of total.  For every list of transactions the store
\* returns and every valid groupBy (day, week, month, year; absent counts as
\* month), calculateSumByDuration succeeds and the sum of `total` over its
\* groups equals the sum of `amount` over the returned transactions.
C1_Conservation ==
    \A r \in Requests :
        (Returned(r) /\ query[r].op = OpTotal /\ effectiveGroupBy(query[r]) \in ValidGroupBys)
            => /\ result[r].status = "ok"
               /\ totalOfGroups(result[r].groups) = totalOfAmounts(records[r])

\* A total query by week has returned at least two groups, one of them with
\* several members, over amounts of both signs.
C1_Witness ==
    \E r \in Requests :
        /\ Returned(r) /\ query[r].op = OpTotal /\ query[r].groupBy = GroupBy.WEEK
        /\ result[r].status = "ok"
        /\ Len(result[r].groups) >= 2
        /\ \E i \in 1..Len(result[r].groups) : result[r].groups[i].count >= 2
        /\ \E i, j \in 1..Len(records[r]) :
               records[r][i].amount > 0 /\ records[r][j].amount < 0

\* The store returned exactly one transaction of 2023-12-30 and one of
\* 2024-01-01 to a total query grouped by week.
C2_Case(r) ==
    /\ Returned(r) /\ query[r].op = OpTotal /\ query[r].groupBy = GroupBy.WEEK
    /\ Len(records[r]) = 2
    /\ {records[r][1].date, records[r][2].date} = {Day(2023, 12, 30), Day(2024, 1, 1)}

\* C2 as stated: with groupBy=week the transactions of 2023-12-30 and
\* 2024-01-01 are merged into the single group 2024-W01 with count 2.
C2_Original ==
    \A r \in Requests :
        C2_Case(r) => /\ Len(result[r].groups) = 1
                      /\ result[r].groups[1].period = "2024-W01"
                      /\ result[r].groups[1].count = 2

\* C2 (amended): with groupBy=week the transactions of 2023-12-30 and
\* 2024-01-01 form two groups of one transaction each: 2023-12-30 (a
\* Saturday) has key 2023-W52 and 2024-01-01 (a Monday) has key 2024-W01.
C2_TwoGroups ==
    \A r \in Requests :
        C2_Case(r) =>
            /\ result[r].status = "ok"
            /\ Len(result[r].groups) = 2
            /\ \A i \in 1..2 :
                   /\ result[r].groups[i].count = 1
                   /\ result[r].groups[i].startDate = records[r][i].date
                   /\ result[r].groups[i].period =
                          IF records[r][i].date = Day(2023, 12, 30)
                          THEN "2023-W52" ELSE "2024-W01"

C2_Witness ==
    \E r \in Requests :
        C2_Case(r) /\ result[r].status = "ok" /\ Len(result[r].groups) = 2

\* C3: with groupBy=week two returned transactions are in the same group if
\* and only if their dates fall in the same ISO-8601 week (Monday through
\* Sunday), also across December 31 / January 1; so there are as many groups
\* as distinct ISO weeks.
C3_IsoWeekGroups ==
    \A r \in Requests :
        (Returned(r) /\ query[r].op = OpTotal /\ query[r].groupBy = GroupBy.WEEK) =>
            /\ \A i, j \in 1..Len(records[r]) :
                   (getPeriodKey(records[r][i].date, GroupBy.WEEK)
                        = getPeriodKey(records[r][j].date, GroupBy.WEEK))
                   <=> (IsoMonday(records[r][i].date.day) = IsoMonday(records[r][j].date.day))
            /\ Len(result[r].groups) =
                   Cardinality({IsoMonday(records[r][i].date.day) : i \in 1..Len(records[r])})

\* C4: for every "now", Sunday included, LAST_WEEK resolves to the Monday
\* 00:00:00.000 seven days before the start THIS_WEEK resolves to, through
\* the Sunday 23:59:59.999 that is the day before that THIS_WEEK start.
C4_LastWeek ==
    \A r \in Requests :
        (pc[r] # "idle" /\ query[r].period = Period.LAST_WEEK) =>
            LET thisWeek == getPeriodDateRange(Period.THIS_WEEK, now[r]).startDate
            IN  /\ dateRange[r].startDate = At(thisWeek.day - 7, 0)
                /\ dateRange[r].endDate = At(thisWeek.day - 1, EndOfDayMs)
                /\ (dateRange[r].startDate.day + 3) % 7 = 0

\* C5: for every "now", THIS_WEEK resolves to 00:00:00.000 of the Monday of
\* the current week (six days back on a Sunday, today on a Monday) through
\* 23:59:59.999 of today, and that window is passed to the store; for now =
\* 2025-06-15 it is 2025-06-09 to 2025-06-15 23:59:59.999.
C5_ThisWeek ==
    \A r \in Requests :
        (pc[r] # "idle" /\ query[r].period = Period.THIS_WEEK) =>
            /\ dateRange[r].startDate = At(IsoMonday(now[r].day), 0)
            /\ dateRange[r].endDate = At(now[r].day, EndOfDayMs)
            /\ CalledWith(r, dateRange[r].startDate, dateRange[r].endDate)
            /\ ((now[r].day + 4) % 7 = 0 => dateRange[r].startDate.day = now[r].day - 6)
            /\ ((now[r].day + 4) % 7 = 1 => dateRange[r].startDate.day = now[r].day)
            /\ (now[r].day = DaysFromCivil(2025, 6, 15) =>
                    dateRange[r].startDate = Day(2025, 6, 9))

\* THIS_WEEK was resolved at midday of Sunday 2025-06-15.
C5_Witness ==
    \E r \in Requests :
        /\ pc[r] = "awaiting" /\ query[r].period = Period.THIS_WEEK
        /\ now[r] = At(DaysFromCivil(2025, 6, 15), Noon)

\* C6: for every "now", LAST_MONTH resolves to 00:00:00.000 of the 1st
\* through 23:59:59.999 of the last day of the calendar month before the
\* current one (December of the previous year in January), and that window
\* is passed to the store; for now = 2025-06-15 it is 2025-05-01 to
\* 2025-05-31 23:59:59.999.
C6_LastMonth ==
    \A r \in Requests :
        (pc[r] # "idle" /\ query[r].period = Period.LAST_MONTH) =>
            LET y  == CivilFromDays(now[r].day)[1]
                m  == CivilFromDays(now[r].day)[2]
                py == IF m = 1 THEN y - 1 ELSE y
                pm == IF m = 1 THEN 12 ELSE m - 1
            IN  /\ dateRange[r].startDate = At(DaysFromCivil(py, pm, 1), 0)
                /\ dateRange[r].endDate = At(DaysFromCivil(y, m, 1) - 1, EndOfDayMs)
                /\ CalledWith(r, dateRange[r].startDate, dateRange[r].endDate)
                /\ (now[r].day = DaysFromCivil(2025, 6, 15) =>
                        /\ dateRange[r].startDate = Day(2025, 5, 1)
                        /\ dateRange[r].endDate = At(DaysFromCivil(2025, 5, 31), EndOfDayMs))

\* LAST_MONTH was resolved in a January: the window is the December before.
C6_Witness ==
    \E r \in Requests :
        /\ pc[r] = "awaiting" /\ query[r].period = Period.LAST_MONTH
        /\ now[r].day = DaysFromCivil(2025, 1, 5)
        /\ dateRange[r].startDate = Day(2024, 12, 1)

\* An operation returned for a query whose groupBy is present and is none
\* of day, week, month, year.
C7_Case(r) ==
    Returned(r) /\ query[r].groupBy # Undefined /\ query[r].groupBy \notin ValidGroupBys

\* C7 as stated: such a query fails with the unsupported-groupBy error in
\* each of the three operations, whatever list the store returned.
C7_Original == \A r \in Requests : C7_Case(r) => result[r] = Err(ErrGroupBy)

\* The sign filter of an operation, on one amount.
Passes(op, amount) ==
    CASE op = OpIncome   -> amount > 0
      [] op = OpExpenses -> amount < 0
      [] OTHER           -> TRUE

\* C7 (amended): a query whose groupBy is a non-empty string other than day,
\* week, month, year fails with the unsupported-groupBy error in each of the
\* three operations whenever at least one returned transaction passes the
\* operation's sign filter; when none does (an empty list included) the
\* operation returns the empty list without error.  An empty-string groupBy
\* is treated as absent and does not fail.
C7_UnsupportedGroupBy ==
    \A r \in Requests :
        C7_Case(r) =>
            IF query[r].groupBy = "" THEN result[r].status = "ok"
            ELSE IF \E i \in 1..Len(records[r]) : Passes(query[r].op, records[r][i].amount)
                 THEN result[r] = Err(ErrGroupBy)
                 ELSE result[r] = Ok(<<>>)

\* The income operation failed on groupBy=INVALID over a returned list that
\* holds income.
C7_Witness ==
    \E r \in Requests :
        /\ C7_Case(r) /\ query[r].groupBy = "INVALID" /\ query[r].op = OpIncome
        /\ \E i \in 1..Len(records[r]) : records[r][i].amount > 0
        /\ result[r] = Err(ErrGroupBy)

\* An operation was invoked with a period that is present and is none of
\* the eight named periods.
C8_Case(r) ==
    pc[r] # "idle" /\ query[r].period # Undefined /\ query[r].period \notin PeriodNames

\* C8 as stated: such a query fails with the unsupported-period error and
\* the store's findByDateRange is never called for it.
C8_Original ==
    \A r \in Requests :
        C8_Case(r) => pc[r] = "done" /\ result[r] = Err(ErrPeriod) /\ calls[r] = <<>>

\* C8 (amended): a query whose period is a non-empty string other than the
\* eight named periods fails in each operation with the unsupported-period
\* error, unchanged, before any call of findByDateRange (none is made, none
\* is pending).  An empty-string period is treated as absent: the window is
\* taken from the explicit bounds and the store is called once.
C8_UnsupportedPeriod ==
    \A r \in Requests :
        C8_Case(r) =>
            IF query[r].period = ""
            THEN Len(calls[r]) = 1
            ELSE /\ pc[r] = "done"
                 /\ result[r] = Err(ErrPeriod)
                 /\ calls[r] = <<>>
                 /\ fetch[r] = NoFetch

C8_Witness ==
    \E r \in Requests :
        /\ C8_Case(r) /\ query[r].period = "INVALID" /\ query[r].op = OpExpenses
        /\ result[r] = Err(ErrPeriod)

\* C9: if the store's findByDateRange fails, the operation fails with that
\* same error, returns no group summary, and has called findByDateRange
\* exactly once.
C9_StoreFailure ==
    \A r \in Requests :
        fetch[r].state = "rejected" =>
            /\ pc[r] = "done"
            /\ result[r].status = "error"
            /\ result[r].error = fetch[r].reason
            /\ result[r].groups = <<>>
            /\ Len(calls[r]) = 1

\* The store rejected the fetch of an expenses query although it holds
\* expenses inside the window.
C9_Witness ==
    \E r \in Requests :
        /\ fetch[r] = Rejected("EIO: i/o error") /\ query[r].op = OpExpenses
        /\ \E i \in 1..Len(transactions) :
               /\ transactions[i].amount < 0
               /\ Leq(calls[r][1].startDate, transactions[i].date)
               /\ Leq(transactions[i].date, calls[r][1].endDate)

\* C10: when a query carries a named period, the window passed to the store
\* is the one resolved from that period relative to "now" (whole days:
\* 00:00:00.000 to 23:59:59.999), whatever explicit startDate and endDate
\* the query also carries.
C10_PeriodPrecedence ==
    \A r \in Requests :
        (pc[r] # "idle" /\ query[r].period \in PeriodNames) =>
            /\ CalledWith(r, getPeriodDateRange(query[r].period, now[r]).startDate,
                          getPeriodDateRange(query[r].period, now[r]).endDate)
            /\ calls[r][1].startDate.ms = 0
            /\ calls[r][1].endDate.ms = EndOfDayMs

\* A query with period=today and both explicit bounds was passed on.
C10_Witness ==
    \E r \in Requests :
        /\ pc[r] = "awaiting" /\ query[r].period = Period.TODAY
        /\ query[r].startDate # {} /\ query[r].endDate # {}
        /\ CalledWith(r, At(now[r].day, 0), At(now[r].day, EndOfDayMs))

\* C11: when a query has no named period, the store is called with start =
\* the query's startDate if given and the epoch otherwise, and end = the
\* query's endDate if given and "now" otherwise; each default applies
\* independently of the other bound, and a given bound is passed unchanged.
C11_DefaultBounds ==
    \A r \in Requests :
        (pc[r] # "idle" /\ query[r].period = Undefined) =>
            /\ Len(calls[r]) = 1
            /\ (query[r].startDate = {} => calls[r][1].startDate = Epoch)
            /\ (query[r].startDate # {} => calls[r][1].startDate \in query[r].startDate)
            /\ (query[r].endDate = {} => calls[r][1].endDate = now[r])
            /\ (query[r].endDate # {} => calls[r][1].endDate \in query[r].endDate)

\* A query with an explicit start and no end was passed on after midnight:
\* the start is the query's and the end is the clock.
C11_Witness ==
    \E r \in Requests :
        /\ pc[r] = "awaiting" /\ query[r].period = Undefined
        /\ query[r].startDate # {} /\ query[r].endDate = {}
        /\ now[r].ms = Noon
        /\ calls[r] = <<Call(At(DaysFromCivil(2020, 1, 1), Noon), now[r])>>

\* The returned records that pass the sign filter of an operation.
passing(op, recs) == SelectSeq(recs, LAMBDA t : Passes(op, t.amount))

\* The period keys of a list of records, in the order of the list.
keysOfRecords(recs, groupBy) ==
    [i \in 1..Len(recs) |-> getPeriodKey(recs[i].date, groupBy)]

\* The periods of a list of group summaries, in the order of the list.
periodsOf(groups) == [g \in 1..Len(groups) |-> groups[g].period]

RECURSIVE countOfGroups(_)
countOfGroups(groups) ==
    IF groups = <<>> THEN 0
    ELSE Head(groups).count + countOfGroups(Tail(groups))

\* C12: for every store content and every valid groupBy, every group
\* returned by getIncomeSumByDuration has total >= 0 and every group returned
\* by getExpensesSumByDuration has total <= 0.
C12_SignOfTotals ==
    \A r \in Requests :
        (Returned(r) /\ effectiveGroupBy(query[r]) \in ValidGroupBys) =>
            /\ result[r].status = "ok"
            /\ query[r].op = OpIncome =>
                   \A g \in 1..Len(result[r].groups) :
                       result[r].groups[g].total >= 0
            /\ query[r].op = OpExpenses =>
                   \A g \in 1..Len(result[r].groups) :
                       result[r].groups[g].total <= 0

\* An expenses query returned a group over a fetched list that holds income,
\* expenses and a zero amount.
C12_Witness ==
    \E r \in Requests :
        /\ Returned(r) /\ query[r].op = OpExpenses
        /\ query[r].groupBy = GroupBy.YEAR
        /\ \E i, j, k \in 1..Len(records[r]) :
               /\ records[r][i].amount > 0
               /\ records[r][j].amount < 0
               /\ records[r][k].amount = 0
        /\ Len(result[r].groups) >= 1
        /\ result[r].groups[1].total < 0

\* The count of the group of a key in a list of group summaries; 0 when the
\* key has no group.
countOfKey(groups, key) ==
    IF \E g \in 1..Len(groups) : groups[g].period = key
    THEN (CHOOSE s \in {groups[g] : g \in 1..Len(groups)} : s.period = key).count
    ELSE 0

\* The positions of the records of a key that an operation's view keeps: all
\* of them in the total view, the positive ones in the income view, the
\* negative ones in the expense view.
keptOfKey(op, recs, groupBy, key) ==
    {j \in 1..Len(recs) :
        /\ getPeriodKey(recs[j].date, groupBy) = key
        /\ \/ op = OpTotal
           \/ op = OpIncome /\ recs[j].amount > 0
           \/ op = OpExpenses /\ recs[j].amount < 0}

\* C13: a transaction with amount 0 is counted in the group of its period by
\* calculateSumByDuration and in no group by getIncomeSumByDuration and
\* getExpensesSumByDuration: the count of its period's group is the number of
\* the period's transactions in the total view, of its positive ones in the
\* income view and of its negative ones in the expense view; a period whose
\* only transactions have amount 0 has a group in the total view and none in
\* the income and expense views.
C13_ZeroAmounts ==
    \A r \in Requests :
        (Returned(r) /\ effectiveGroupBy(query[r]) \in ValidGroupBys) =>
            \A i \in 1..Len(records[r]) :
                records[r][i].amount = 0 =>
                    /\ countOfKey(result[r].groups,
                                  getPeriodKey(records[r][i].date,
                                               effectiveGroupBy(query[r])))
                         = Cardinality(
                               keptOfKey(query[r].op, records[r],
                                         effectiveGroupBy(query[r]),
                                         getPeriodKey(records[r][i].date,
                                                      effectiveGroupBy(query[r]))))
                    /\ (query[r].op = OpTotal) =>
                           \E g \in 1..Len(result[r].groups) :
                               result[r].groups[g].period =
                                   getPeriodKey(records[r][i].date,
                                                effectiveGroupBy(query[r]))
                    /\ (/\ query[r].op # OpTotal
                        /\ \A j \in 1..Len(records[r]) :
                               getPeriodKey(records[r][j].date,
                                            effectiveGroupBy(query[r]))
                                 = getPeriodKey(records[r][i].date,
                                                effectiveGroupBy(query[r]))
                               => records[r][j].amount = 0)
                       => \A g \in 1..Len(result[r].groups) :
                              result[r].groups[g].period #
                                  getPeriodKey(records[r][i].date,
                                               effectiveGroupBy(query[r]))

\* An income query by day returned groups, none of them for 2024-01-01,
\* whose only transaction has amount 0.
C13_Witness ==
    \E r \in Requests :
        /\ Returned(r) /\ query[r].op = OpIncome
        /\ query[r].groupBy = GroupBy.DAY
        /\ \E i \in 1..Len(records[r]) :
               /\ records[r][i].amount = 0
               /\ records[r][i].date = Day(2024, 1, 1)
        /\ \A i \in 1..Len(records[r]) :
               records[r][i].date = Day(2024, 1, 1) => records[r][i].amount = 0
        /\ Len(result[r].groups) >= 1
        /\ \A g \in 1..Len(result[r].groups) :
               result[r].groups[g].period # "2024-01-01"

\* The positions at which a key occurs for the first time in a list of keys.
firstIndices(keys) ==
    {i \in 1..Len(keys) : \A j \in 1..(i - 1) : keys[j] # keys[i]}

\* The g-th smallest element of a set of positions.
nthOf(positions, g) ==
    CHOOSE i \in positions : Cardinality({j \in positions : j <= i}) = g

\* The distinct keys of a list of keys, in the order of their first
\* occurrence.
firstSeen(keys) ==
    [g \in 1..Cardinality(firstIndices(keys)) |->
        keys[nthOf(firstIndices(keys), g)]]

\* C14: the output holds exactly one group summary per distinct period key,
\* and the groups are in the order in which their keys are first met when
\* the transactions are scanned in the order the store returned them (which
\* need not be chronological).
C14_FirstSeenOrder ==
    \A r \in Requests :
        (Returned(r) /\ effectiveGroupBy(query[r]) \in ValidGroupBys) =>
            /\ result[r].status = "ok"
            /\ periodsOf(result[r].groups) =
                   firstSeen(keysOfRecords(passing(query[r].op, records[r]),
                                           effectiveGroupBy(query[r])))
            /\ \A g, h \in 1..Len(result[r].groups) :
                   g # h => result[r].groups[g].period # result[r].groups[h].period

\* A total query by month returned two groups whose order is the order of
\* the store and not that of the calendar: January 2025 comes before
\* December 2023, and January 2025, met again after December 2023, has not
\* opened a second group.
C14_Witness ==
    \E r \in Requests :
        /\ Returned(r) /\ query[r].op = OpTotal
        /\ query[r].groupBy = GroupBy.MONTH
        /\ Len(records[r]) = 5
        /\ records[r][4].date = Day(2023, 12, 30)
        /\ records[r][5].date = Day(2025, 1, 1)
        /\ periodsOf(result[r].groups) = <<"2025-01", "2023-12">>

\* C15: the groups partition the transactions that passed the filter: every
\* group has count >= 1 and the counts add up to the number of transactions
\* that passed; so an empty input, or one the filter empties, yields the
\* empty list and no error, for every valid groupBy.
C15_Partition ==
    \A r \in Requests :
        (Returned(r) /\ effectiveGroupBy(query[r]) \in ValidGroupBys) =>
            /\ result[r].status = "ok"
            /\ \A g \in 1..Len(result[r].groups) : result[r].groups[g].count >= 1
            /\ countOfGroups(result[r].groups)
                 = Len(passing(query[r].op, records[r]))
            /\ passing(query[r].op, records[r]) = <<>> => result[r] = Ok(<<>>)

\* An income query returned a group of two transactions of the same date,
\* the filter having removed others.
C15_Witness ==
    \E r \in Requests :
        /\ Returned(r) /\ query[r].op = OpIncome
        /\ Len(passing(OpIncome, records[r])) < Len(records[r])
        /\ \E g \in 1..Len(result[r].groups) :
               /\ result[r].groups[g].count = 2
               /\ result[r].groups[g].startDate = result[r].groups[g].endDate

\* C16: a query with groupBy absent produces, in each of the three
\* operations, the output of the same query with groupBy=month on the same
\* store data: the same window is passed to the store, and the result is
\* that of grouping the fetched records by month (keys of the form YYYY-MM).
C16_DefaultMonth ==
    \A r \in Requests :
        (Returned(r) /\ query[r].groupBy = Undefined) =>
            /\ CalledWith(r,
                   getDateRange([query[r] EXCEPT !.groupBy = GroupBy.MONTH],
                                now[r]).startDate,
                   getDateRange([query[r] EXCEPT !.groupBy = GroupBy.MONTH],
                                now[r]).endDate)
            /\ result[r] = groupAndSum(filterRecords(query[r].op, records[r]),
                                       GroupBy.MONTH)
            /\ \A g \in 1..Len(result[r].groups) :
                   /\ Len(result[r].groups[g].period) = 7
                   /\ result[r].groups[g].period =
                          ToString(getFullYear(result[r].groups[g].startDate))
                              \o "-"
                              \o padStart2(getMonth(result[r].groups[g].startDate) + 1)

\* An expenses query without groupBy returned one group for the two expenses
\* of January 2025, which are of different days.
C16_Witness ==
    \E r \in Requests :
        /\ Returned(r) /\ query[r].groupBy = Undefined
        /\ query[r].op = OpExpenses
        /\ \E g \in 1..Len(result[r].groups) :
               /\ result[r].groups[g].period = "2025-01"
               /\ result[r].groups[g].count >= 2
               /\ result[r].groups[g].startDate # result[r].groups[g].endDate

\* The calendar unit of a date under a groupBy: <<year>>, <<year, month>>
\* or <<year, month, day>>.
unitOf(groupBy, date) ==
    CASE groupBy = GroupBy.YEAR  -> <<CivilFromDays(date.day)[1]>>
      [] groupBy = GroupBy.MONTH ->
           <<CivilFromDays(date.day)[1], CivilFromDays(date.day)[2]>>
      [] OTHER -> CivilFromDays(date.day)

zeroPadded(n) == IF n < 10 THEN "0" \o ToString(n) ELSE ToString(n)

\* The forms YYYY, YYYY-MM and YYYY-MM-DD of a calendar unit.
formOf(unit) ==
    CASE Len(unit) = 1 -> ToString(unit[1])
      [] Len(unit) = 2 -> ToString(unit[1]) \o "-" \o zeroPadded(unit[2])
      [] OTHER -> ToString(unit[1]) \o "-" \o zeroPadded(unit[2])
                      \o "-" \o zeroPadded(unit[3])

\* The groups are the calendar units of the records: one group per unit,
\* keyed by the unit's form and counting the records of the unit.
groupsAreUnits(groups, recs, groupBy) ==
    /\ Len(groups) =
           Cardinality({unitOf(groupBy, recs[i].date) : i \in 1..Len(recs)})
    /\ \A g \in 1..Len(groups) :
           /\ groups[g].period = formOf(unitOf(groupBy, groups[g].startDate))
           /\ Len(groups[g].period)
                = 3 * Len(unitOf(groupBy, groups[g].startDate)) + 1
           /\ groups[g].count =
                  Cardinality({i \in 1..Len(recs) :
                                  unitOf(groupBy, recs[i].date)
                                    = unitOf(groupBy, groups[g].startDate)})
    /\ \A g, h \in 1..Len(groups) :
           g # h => unitOf(groupBy, groups[g].startDate)
                      # unitOf(groupBy, groups[h].startDate)

\* The amounts and dates of a list of records.
amountsAndDates(recs) ==
    [i \in 1..Len(recs) |-> [amount |-> recs[i].amount, date |-> recs[i].date]]

ExampleRecords ==
    << [amount |-> 100, date |-> Day(2024, 1, 15)],
       [amount |-> -50, date |-> Day(2024, 1, 20)],
       [amount |-> 200, date |-> Day(2024, 2, 10)] >>

ExampleGroups ==
    << [period |-> "2024-01", total |-> 50, count |-> 2,
        startDate |-> Day(2024, 1, 15), endDate |-> Day(2024, 1, 20)],
       [period |-> "2024-02", total |-> 200, count |-> 1,
        startDate |-> Day(2024, 2, 10), endDate |-> Day(2024, 2, 10)] >>

\* C17: for groupBy in {day, month, year} two transactions are in the same
\* group if and only if their dates lie in the same local calendar day,
\* month of the same year, or year; so transactions of N distinct years give
\* N groups under groupBy=year, and the keys have the zero-padded forms
\* YYYY-MM-DD, YYYY-MM and YYYY.  Amounts 100 on 2024-01-15, -50 on
\* 2024-01-20 and 200 on 2024-02-10 give, by month, 2024-01 with total 50 and
\* count 2, then 2024-02 with total 200 and count 1.
C17_CalendarGroups ==
    \A r \in Requests :
        (/\ Returned(r)
         /\ query[r].groupBy \in {GroupBy.DAY, GroupBy.MONTH, GroupBy.YEAR}) =>
            /\ result[r].status = "ok"
            /\ groupsAreUnits(result[r].groups,
                              passing(query[r].op, records[r]),
                              query[r].groupBy)
            /\ (/\ query[r].op = OpTotal
                /\ query[r].groupBy = GroupBy.MONTH
                /\ amountsAndDates(records[r]) = ExampleRecords)
               => result[r].groups = ExampleGroups

\* The three transactions of the example were summed by month.
C17_Witness ==
    \E r \in Requests :
        /\ Returned(r) /\ query[r].op = OpTotal
        /\ query[r].groupBy = GroupBy.MONTH
        /\ amountsAndDates(records[r]) = ExampleRecords
        /\ result[r] = Ok(ExampleGroups)

\* The dates of the records of a key.
memberDates(recs, groupBy, key) ==
    {recs[i].date : i \in {j \in 1..Len(recs) :
                              getPeriodKey(recs[j].date, groupBy) = key}}

\* The number of the records of a key.
memberCount(recs, groupBy, key) ==
    Cardinality({j \in 1..Len(recs) : getPeriodKey(recs[j].date, groupBy) = key})

\* A group's dates are the earliest and the latest of the given dates.
spansDates(group, dates) ==
    /\ group.startDate \in dates
    /\ group.endDate \in dates
    /\ \A d \in dates : Leq(group.startDate, d) /\ Leq(d, group.endDate)
    /\ Leq(group.startDate, group.endDate)
    /\ Cardinality(dates) = 1 => group.startDate = group.endDate

\* C18: for every group, startDate is the earliest and endDate the latest
\* date among the group's members (so startDate <= endDate, and both are
\* dates of members, not the bounds of the query window); when all members
\* have the identical timestamp, the group counts them all (2 or more for
\* two or more such transactions) and startDate = endDate.
C18_MinMaxDates ==
    \A r \in Requests :
        (Returned(r) /\ effectiveGroupBy(query[r]) \in ValidGroupBys) =>
            \A g \in 1..Len(result[r].groups) :
                /\ spansDates(result[r].groups[g],
                              memberDates(passing(query[r].op, records[r]),
                                          effectiveGroupBy(query[r]),
                                          result[r].groups[g].period))
                /\ result[r].groups[g].count =
                       memberCount(passing(query[r].op, records[r]),
                                   effectiveGroupBy(query[r]),
                                   result[r].groups[g].period)

\* A total query by day returned a group of the two transactions stored with
\* the identical timestamp 2024-01-15 12:34:56.789 (startDate = endDate),
\* after a group of a later day.
C18_Witness ==
    \E r \in Requests :
        /\ Returned(r) /\ query[r].op = OpTotal
        /\ query[r].groupBy = GroupBy.DAY
        /\ Len(records[r]) = 3
        /\ records[r][1].date = Day(2024, 1, 20)
        /\ records[r][2].date = At(DaysFromCivil(2024, 1, 15), Noon)
        /\ records[r][3].date = records[r][2].date
        /\ Len(result[r].groups) = 2
        /\ result[r].groups[2].count = 2
        /\ result[r].groups[2].startDate = result[r].groups[2].endDate

\* C19 as stated: two calls of an operation with the identical query on an
\* unchanged store return the identical output.
C19_Original ==
    \A r1, r2 \in Requests :
        (/\ Returned(r1) /\ Returned(r2)
         /\ query[r1] = query[r2]
         /\ transactions = SeedTransactions)
        => result[r1] = result[r2]

\* C19 (amended): two calls of an operation with the identical query on an
\* unchanged store return the identical output whenever both calls resolve
\* the same window; they do so, whatever the clock reads, when the query has
\* no period and carries an endDate (the start being the query's startDate
\* or the epoch).  With a period, or without endDate, the window follows the
\* clock of each call.
C19_Idempotence ==
    \A r1, r2 \in Requests :
        (/\ Returned(r1) /\ Returned(r2)
         /\ query[r1] = query[r2]
         /\ transactions = SeedTransactions)
        => /\ calls[r1] = calls[r2] => result[r1] = result[r2]
           /\ (~Truthy(query[r1].period) /\ query[r1].endDate # {})
                  => calls[r1] = calls[r2] /\ result[r1] = result[r2]

\* Two calls of the same total query with an explicit endDate, made on
\* different days, returned the same two groups.
C19_Witness ==
    \E r1, r2 \in Requests :
        /\ Returned(r1) /\ Returned(r2)
        /\ query[r1] = query[r2]
        /\ query[r1].op = OpTotal
        /\ query[r1].period = Undefined /\ query[r1].endDate # {}
        /\ now[r1] # now[r2]
        /\ result[r1] = result[r2]
        /\ Len(result[r1].groups) = 2

\* The earliest and the latest date of a non-empty list of records.
earliest(recs) ==
    CHOOSE d \in {recs[i].date : i \in 1..Len(recs)} :
        \A i \in 1..Len(recs) : Leq(d, recs[i].date)

latest(recs) ==
    CHOOSE d \in {recs[i].date : i \in 1..Len(recs)} :
        \A i \in 1..Len(recs) : Leq(recs[i].date, d)

\* The records of a key, in the order of the list.
membersOf(recs, groupBy, key) ==
    SelectSeq(recs, LAMBDA t : getPeriodKey(t.date, groupBy) = key)

\* The summary of a key over its members.
summaryOfMembers(key, members) ==
    [period    |-> key,
     total     |-> totalOfAmounts(members),
     count     |-> Len(members),
     startDate |-> earliest(members),
     endDate   |-> latest(members)]

\* The groups of a list of records: one per key, in first-seen order.
groupsOfKeys(recs, groupBy, keys) ==
    [g \in 1..Len(keys) |->
        summaryOfMembers(keys[g], membersOf(recs, groupBy, keys[g]))]

\* The output an operation owes to the list its fetch returned.
groupsOfSnapshot(op, recs, groupBy) ==
    groupsOfKeys(passing(op, recs), groupBy,
                 firstSeen(keysOfRecords(passing(op, recs), groupBy)))

\* C20: concurrent queries do not interfere.  In every interleaving of the
\* requests with each other and with save, update and delete, each request
\* has called findByDateRange once and its result is the grouping of exactly
\* the list that call returned: it depends neither on the progress of another
\* request nor on a write made after its fetch.
C20_OwnSnapshot ==
    \A r \in Requests :
        /\ pc[r] # "idle" => Len(calls[r]) = 1
        /\ Returned(r) =>
               result[r] = Ok(groupsOfSnapshot(query[r].op, records[r],
                                               effectiveGroupBy(query[r])))

\* Two requests with the same query have returned different results, each
\* from its own fetch, and the store has been written again since: neither
\* fetched list is what the store would return now.
C20_Witness ==
    \E r1, r2 \in Requests :
        /\ Returned(r1) /\ Returned(r2)
        /\ query[r1] = query[r2]
        /\ result[r1] # result[r2]
        /\ \A r \in {r1, r2} :
               records[r] # findByDateRange(transactions,
                                            dateRange[r].startDate,
                                            dateRange[r].endDate)


\* A request that is not in progress holds nothing: no query, window, call,
\* fetched list or result of an earlier invocation.
holdsNothing(r) ==
    /\ query[r] = NoQuery
    /\ now[r] = Epoch
    /\ dateRange[r] = NoRange
    /\ calls[r] = <<>>
    /\ fetch[r] = NoFetch
    /\ records[r] = <<>>
    /\ result[r] = NoResult

\* A step of an aggregation operation: its call, the settling of the
\* store's promise, or the delivery of its outcome.
IsQueryStep == \E r \in Requests : pc'[r] # pc[r]

\* C21: the aggregation engine is read-only.  Every step of a total, income
\* or expense query, successful or failing, leaves the store's list of
\* transactions (ids, amounts, dates, order) as it was, and once the outcome
\* is delivered nothing of the invocation is kept.
C21_ReadOnly ==
    [][IsQueryStep =>
           /\ transactions' = transactions
           /\ \A r \in Requests : pc'[r] = "idle" => holdsNothing(r)']_vars

C21_Witness ==
    /\ Len(transactions) > Len(SeedTransactions)
    /\ \E r \in Requests :
           /\ pc[r] = "done"
           /\ query[r].op = OpIncome
           /\ result[r].status = "error"
           /\ fetch[r].state = "rejected"

\* The instant one millisecond after, and one millisecond before, an instant.
plus1ms(t) ==
    IF t.ms = EndOfDayMs THEN At(t.day + 1, 0) ELSE At(t.day, t.ms + 1)

minus1ms(t) ==
    IF t.ms = 0 THEN At(t.day - 1, EndOfDayMs) ELSE At(t.day, t.ms - 1)

\* The positions of the stored transactions dated at an instant.
storedAt(instant) ==
    {i \in 1..Len(transactions) : transactions[i].date = instant}

\* The stored transactions at the given positions, in the order of the store.
storedIn(positions) ==
    SelectSeq(transactions,
              LAMBDA t : \E i \in positions : transactions[i] = t)

\* The positions of the stored transactions that are neither earlier than
\* startDate nor later than endDate.
notOutside(startDate, endDate) ==
    {i \in 1..Len(transactions) :
        /\ ~(transactions[i].date.day < startDate.day)
        /\ ~(transactions[i].date.day = startDate.day
                /\ transactions[i].date.ms < startDate.ms)
        /\ ~(transactions[i].date.day > endDate.day)
        /\ ~(transactions[i].date.day = endDate.day
                /\ transactions[i].date.ms > endDate.ms)}

\* C22: findByDateRange(start, end) returns exactly the stored transactions
\* with start <= date <= end, both bounds inclusive: a transaction dated
\* exactly at start or exactly at end is returned, one dated a millisecond
\* before start or after end is not.
C22_InclusiveBounds ==
    \A r \in Requests :
        pc[r] = "awaiting" =>
            /\ records[r] =
                   storedIn(notOutside(dateRange[r].startDate,
                                       dateRange[r].endDate))
            /\ \A i \in storedAt(dateRange[r].startDate)
                         \cup storedAt(dateRange[r].endDate) :
                   \E k \in 1..Len(records[r]) : records[r][k] = transactions[i]
            /\ \A i \in storedAt(minus1ms(dateRange[r].startDate))
                         \cup storedAt(plus1ms(dateRange[r].endDate)) :
                   \A k \in 1..Len(records[r]) : records[r][k] # transactions[i]

C22_Witness ==
    \E r \in Requests :
        /\ pc[r] = "awaiting"
        /\ dateRange[r] = Range(RangeStart, RangeEnd)
        /\ storedAt(RangeStart) = {1}
        /\ storedAt(RangeEnd) = {2}
        /\ storedAt(plus1ms(RangeEnd)) = {3}
        /\ records[r] = SubSeq(transactions, 1, 2)

\* The window an operation resolves from its query and the clock.
windowOf(r) == getDateRange(query[r], now[r])

\* Two requests that differ at most in the operation called.
SameQueryAndNow(r1, r2) ==
    /\ [query[r1] EXCEPT !.op = ""] = [query[r2] EXCEPT !.op = ""]
    /\ now[r1] = now[r2]

\* C23: every successful aggregation query calls the store's
\* findByDateRange exactly once and never findAll.  The window is resolved
\* before the call; the sign filter and the grouping happen only after it,
\* on the list the call returned.  For the same query and "now" the total,
\* income and expense operations pass the same (start, end) to the store.
C23_OneCall ==
    /\ \A r \in Requests :
           /\ pc[r] = "awaiting" =>
                  /\ dateRange[r] = windowOf(r)
                  /\ calls[r] = <<Call(windowOf(r).startDate,
                                        windowOf(r).endDate)>>
                  /\ records[r] =
                         findByDateRange(transactions, windowOf(r).startDate,
                                         windowOf(r).endDate)
                  /\ result[r] = NoResult
           /\ Returned(r) =>
                  /\ result[r].status = "ok"
                  /\ calls[r] = <<Call(windowOf(r).startDate,
                                        windowOf(r).endDate)>>
                  /\ result[r] =
                         groupAndSum(filterRecords(query[r].op, records[r]),
                                     effectiveGroupBy(query[r]))
    /\ \A r1, r2 \in Requests :
           (pc[r1] # "idle" /\ pc[r2] # "idle" /\ SameQueryAndNow(r1, r2))
               => calls[r1] = calls[r2]

\* The income and the expense operation were called with the same query of
\* the period today at the same "now"; both made the one call with the same
\* window and returned different groups.
C23_Witness ==
    \E r1, r2 \in Requests :
        /\ Returned(r1) /\ Returned(r2)
        /\ query[r1].op = OpIncome /\ query[r2].op = OpExpenses
        /\ query[r1].period = Period.TODAY
        /\ SameQueryAndNow(r1, r2)
        /\ calls[r1] = calls[r2]
        /\ Len(calls[r1]) = 1
        /\ calls[r1][1].method = "findByDateRange"
        /\ Len(records[r1]) = 1
        /\ result[r1].groups = <<>>
        /\ Len(result[r2].groups) = 1

\* The number of days of a month (1..12) of a year of the Gregorian calendar.
daysInMonth(year, month) ==
    CASE month \in {4, 6, 9, 11} -> 30
      [] month = 2 ->
           IF (year % 4 = 0 /\ year % 100 # 0) \/ year % 400 = 0 THEN 29 ELSE 28
      [] OTHER -> 31

\* The calendar date <<year, month, day>> of the day before a calendar date.
dayBefore(civil) ==
    CASE civil[3] > 1 -> <<civil[1], civil[2], civil[3] - 1>>
      [] civil[3] = 1 /\ civil[2] > 1 ->
           <<civil[1], civil[2] - 1, daysInMonth(civil[1], civil[2] - 1)>>
      [] OTHER -> <<civil[1] - 1, 12, 31>>

\* The calendar date <<year, month, day>> of an instant.
civilOf(instant) ==
    <<getFullYear(instant), getMonth(instant) + 1, getDate(instant)>>

\* A request that asked for a named period and has resolved its window.
Asked(r, period) == pc[r] # "idle" /\ query[r].period = period

\* C24: the window of YESTERDAY is 00:00:00.000 to 23:59:59.999 of the
\* calendar day before today, also when today is the first day of a month
\* or January 1st.
C24_Yesterday ==
    \A r \in Requests :
        Asked(r, Period.YESTERDAY) =>
            /\ dateRange[r].error = ""
            /\ civilOf(dateRange[r].startDate) = dayBefore(civilOf(now[r]))
            /\ civilOf(dateRange[r].endDate) = dayBefore(civilOf(now[r]))
            /\ dateRange[r].startDate.ms = 0
            /\ dateRange[r].endDate.ms = EndOfDayMs
            /\ dateRange[r].startDate.day = now[r].day - 1
            /\ CalledWith(r, dateRange[r].startDate, dateRange[r].endDate)

\* YESTERDAY was asked on 2024-01-01 and resolved to the whole of
\* 2023-12-31.
C24_Witness ==
    \E r \in Requests :
        /\ Asked(r, Period.YESTERDAY)
        /\ civilOf(now[r]) = <<2024, 1, 1>>
        /\ dateRange[r] =
               Range(Day(2023, 12, 31), At(DaysFromCivil(2023, 12, 31), EndOfDayMs))

\* The periods whose window ends with today.
ThisPeriods ==
    {Period.TODAY, Period.THIS_WEEK, Period.THIS_MONTH, Period.THIS_YEAR}

\* The first instant of today, of the current week (Monday), of the current
\* month and of the current year, by the calendar.
startOfThis(period, clock) ==
    CASE period = Period.TODAY      -> At(clock.day, 0)
      [] period = Period.THIS_WEEK  -> At(IsoMonday(clock.day), 0)
      [] period = Period.THIS_MONTH ->
           At(clock.day - (civilOf(clock)[3] - 1), 0)
      [] period = Period.THIS_YEAR  ->
           At(DaysFromCivil(civilOf(clock)[1], 1, 1), 0)

\* One window lies within another.
Within(inner, outer) ==
    Leq(outer.startDate, inner.startDate) /\ Leq(inner.endDate, outer.endDate)

\* C25: the windows of TODAY, THIS_WEEK, THIS_MONTH and THIS_YEAR all end at
\* 23:59:59.999 of today and start at 00:00:00.000 of today, of the Monday
\* of the current week, of the first of the current month and of January
\* 1st; each contains "now"; TODAY lies within THIS_WEEK and THIS_MONTH, and
\* THIS_MONTH within THIS_YEAR.
C25_ThisPeriods ==
    \A r \in Requests :
        (pc[r] # "idle" /\ query[r].period \in ThisPeriods) =>
            /\ dateRange[r] =
                   Range(startOfThis(query[r].period, now[r]),
                         At(now[r].day, EndOfDayMs))
            /\ CalledWith(r, dateRange[r].startDate, dateRange[r].endDate)
            /\ Leq(dateRange[r].startDate, now[r])
            /\ Leq(now[r], dateRange[r].endDate)
            /\ query[r].period = Period.THIS_MONTH =>
                   /\ civilOf(dateRange[r].startDate)[1] = civilOf(now[r])[1]
                   /\ civilOf(dateRange[r].startDate)[2] = civilOf(now[r])[2]
                   /\ civilOf(dateRange[r].startDate)[3] = 1
                   /\ Within(dateRange[r],
                             getPeriodDateRange(Period.THIS_YEAR, now[r]))
            /\ query[r].period = Period.THIS_YEAR =>
                   /\ civilOf(dateRange[r].startDate)[1] = civilOf(now[r])[1]
                   /\ civilOf(dateRange[r].startDate)[2] = 1
                   /\ civilOf(dateRange[r].startDate)[3] = 1
            /\ query[r].period = Period.THIS_WEEK =>
                   /\ getDay(dateRange[r].startDate) = 1
                   /\ now[r].day - dateRange[r].startDate.day \in 0..6
            /\ query[r].period = Period.TODAY =>
                   /\ Within(dateRange[r],
                             getPeriodDateRange(Period.THIS_WEEK, now[r]))
                   /\ Within(dateRange[r],
                             getPeriodDateRange(Period.THIS_MONTH, now[r]))

\* THIS_MONTH was asked at midnight of the first of a month: the window
\* starts at "now" and ends at the end of that day.
C25_Witness ==
    \E r \in Requests :
        /\ pc[r] # "idle" /\ query[r].period = Period.THIS_MONTH
        /\ now[r] = Day(2025, 7, 1)
        /\ dateRange[r] =
               Range(Day(2025, 7, 1), At(DaysFromCivil(2025, 7, 1), EndOfDayMs))

\* The window the code resolves for a named period at the clock of a request.
windowAt(r, period) == getPeriodDateRange(period, now[r])

\* The period whose window follows the window of a period without a gap.
followerOf(period) ==
    CASE period = Period.YESTERDAY  -> Period.TODAY
      [] period = Period.LAST_MONTH -> Period.THIS_MONTH
      [] period = Period.LAST_YEAR  -> Period.THIS_YEAR

\* C28: the windows of adjacent periods meet without gap or overlap:
\* YESTERDAY.end + 1 ms = TODAY.start, LAST_MONTH.end + 1 ms =
\* THIS_MONTH.start and LAST_YEAR.end + 1 ms = THIS_YEAR.start, where
\* LAST_YEAR is January 1st 00:00:00.000 to December 31st 23:59:59.999 of
\* the previous year; every named window has start <= end.
C28_Adjacent ==
    \A r \in Requests :
        (pc[r] # "idle" /\ query[r].period \in PeriodNames) =>
            /\ dateRange[r] = windowAt(r, query[r].period)
            /\ CalledWith(r, dateRange[r].startDate, dateRange[r].endDate)
            /\ Leq(dateRange[r].startDate, dateRange[r].endDate)
            /\ query[r].period
                   \in {Period.YESTERDAY, Period.LAST_MONTH, Period.LAST_YEAR} =>
                   plus1ms(dateRange[r].endDate) =
                       windowAt(r, followerOf(query[r].period)).startDate
            /\ query[r].period = Period.LAST_YEAR =>
                   /\ civilOf(dateRange[r].startDate) =
                          <<civilOf(now[r])[1] - 1, 1, 1>>
                   /\ dateRange[r].startDate.ms = 0
                   /\ civilOf(dateRange[r].endDate) =
                          <<civilOf(now[r])[1] - 1, 12, 31>>
                   /\ dateRange[r].endDate.ms = EndOfDayMs

\* LAST_YEAR was asked in 2025: the window is the whole of 2024 and ends one
\* millisecond before THIS_YEAR starts.
C28_Witness ==
    \E r \in Requests :
        /\ pc[r] # "idle" /\ query[r].period = Period.LAST_YEAR
        /\ civilOf(now[r])[1] = 2025
        /\ dateRange[r] =
               Range(Day(2024, 1, 1), At(DaysFromCivil(2024, 12, 31), EndOfDayMs))
        /\ plus1ms(dateRange[r].endDate) = Day(2025, 1, 1)
        /\ windowAt(r, Period.THIS_YEAR).startDate = Day(2025, 1, 1)

\* ISO-8601: the day number of the first Thursday of a year.
firstThursdayOf(year) ==
    DaysFromCivil(year, 1, 1)
        + ((3 + 7 - ((DaysFromCivil(year, 1, 1) + 3) % 7)) % 7)

\* ISO-8601: the week number of a day is the number of the week of the
\* Thursday of its Monday-to-Sunday week, the week of that Thursday's year's
\* first Thursday being week 1.
isoWeekOfThursday(thursday) ==
    ((thursday - firstThursdayOf(CivilFromDays(thursday)[1])) \div 7) + 1

isoWeekOf(day) == isoWeekOfThursday(IsoMonday(day) + 3)

\* C26: the week number in the week key is, for every calendar date, an
\* integer from 1 to 53 equal to the ISO-8601 week number of the date, and
\* is written with two digits, zero-padded.
C26_IsoWeekNumber ==
    \A r \in Requests :
        (Returned(r) /\ records[r] # <<>> /\ query[r].op = OpTotal) =>
            /\ getWeekNumber(records[r][1].date) = isoWeekOf(records[r][1].date.day)
            /\ getWeekNumber(records[r][1].date) \in 1..53
            /\ result[r].status = "ok"
            /\ Len(result[r].groups) = 1
            /\ result[r].groups[1].period =
                   ToString(getFullYear(records[r][1].date)) \o "-W"
                       \o zeroPadded(isoWeekOf(records[r][1].date.day))
            /\ Len(result[r].groups[1].period) = 8

\* Sunday 2021-01-10 closes the first week of 2021: its key ends in W01.
C26_Witness ==
    \E r \in Requests :
        /\ Returned(r) /\ query[r].op = OpTotal
        /\ transactions[1].date = Day(2021, 1, 10)
        /\ isoWeekOf(transactions[1].date.day) = 1
        /\ result[r].groups[1].period = "2021-W01"

\* The total of the group of a period key in a list of summaries, 0 when
\* the list has no group of the key.
totalOfKey(groups, key) ==
    IF \E g \in 1..Len(groups) : groups[g].period = key
    THEN (CHOOSE s \in {groups[g] : g \in 1..Len(groups)} : s.period = key).total
    ELSE 0

\* The number of records of a period key whose amount is zero.
zerosOfKey(recs, groupBy, key) ==
    Cardinality({i \in 1..Len(recs) :
                    /\ recs[i].amount = 0
                    /\ getPeriodKey(recs[i].date, groupBy) = key})

\* The period keys of the fetched records and of the groups of a request.
keysSeen(r) ==
    {getPeriodKey(records[r][i].date, effectiveGroupBy(query[r])) :
        i \in 1..Len(records[r])}
        \cup {result[r].groups[g].period : g \in 1..Len(result[r].groups)}

\* The total, the income and the expense operation have returned for the
\* same query at the same "now".
ThreeViews(all, income, expense) ==
    /\ Returned(all) /\ Returned(income) /\ Returned(expense)
    /\ query[all].op = OpTotal
    /\ query[income].op = OpIncome
    /\ query[expense].op = OpExpenses
    /\ SameQueryAndNow(all, income) /\ SameQueryAndNow(all, expense)

\* C27: decomposition of the three views.  For the same query, "now" and
\* store, and for every period key, the total of the total view is the sum
\* of the totals of the income and the expense view, and its count is the
\* sum of their counts plus the number of zero-amount transactions of the
\* period; a view without a group of the key contributes 0.
C27_Decomposition ==
    \A all, income, expense \in Requests :
        ThreeViews(all, income, expense) =>
            \A key \in keysSeen(all) \cup keysSeen(income) \cup keysSeen(expense) :
                /\ totalOfKey(result[all].groups, key) =
                       totalOfKey(result[income].groups, key)
                           + totalOfKey(result[expense].groups, key)
                /\ countOfKey(result[all].groups, key) =
                       countOfKey(result[income].groups, key)
                           + countOfKey(result[expense].groups, key)
                           + zerosOfKey(records[all],
                                        effectiveGroupBy(query[all]), key)

\* A month holds an income, an expense and a zero amount; another month
\* would have no group in the expense view.
C27_Witness ==
    \E all, income, expense \in Requests :
        /\ ThreeViews(all, income, expense)
        /\ query[all].groupBy = GroupBy.MONTH
        /\ countOfKey(result[all].groups, "2024-01") = 3
        /\ totalOfKey(result[all].groups, "2024-01") = 50
        /\ countOfKey(result[income].groups, "2024-01") = 1
        /\ countOfKey(result[expense].groups, "2024-01") = 1
        /\ zerosOfKey(records[all], GroupBy.MONTH, "2024-01") = 1

\* An aggregation operation is called by a request.
IsCall(r) == pc[r] = "idle" /\ pc'[r] = "awaiting"

\* The store's promise of a request is fulfilled.
IsReturn(r) == pc[r] = "awaiting" /\ pc'[r] = "done"

IsEndpointCall(r) ==
    /\ pc[r] = "idle" /\ pc'[r] = "done"
    /\ query'[r].op \in {OpFindOne, OpUpdate, OpRemove}

\* The id is the id of a stored transaction.
IsStored(stored, id) == \E i \in 1..Len(stored) : stored[i].id = id

\* The stored transactions other than the one of the id, in order.
othersOf(stored, id) == SelectSeq(stored, LAMBDA t : t.id # id)

\* C30: findOne, update and remove on an id that is not in the store fail
\* with NotFoundException and leave the stored transactions unchanged; a
\* remove of a stored id succeeds, after it the id is not in the store (so
\* that a later findOne, update or remove of it fails with
\* NotFoundException) and every other stored transaction is unchanged.
C30_NotFound ==
    [][\A r \in Requests :
           IsEndpointCall(r) =>
               /\ ~IsStored(transactions, query'[r].id) =>
                      /\ result'[r] = Err(ErrNotFound)
                      /\ transactions' = transactions
               /\ (IsStored(transactions, query'[r].id)
                      /\ query'[r].op = OpRemove) =>
                      /\ result'[r].status = "ok"
                      /\ ~IsStored(transactions', query'[r].id)
                      /\ transactions' = othersOf(transactions, query'[r].id)]_vars

====
